---- MODULE Spec2Model ----
(***************************************************************************)
(* Valve price validation pipeline: the matching-and-pricing engine of     *)
(* services/dataLoader.ts, services/stepA.ts, services/stepB.ts and        *)
(* utils/helpers.ts.                                                       *)
(*                                                                         *)
(* Record fields carry ASCII names for the source's column names:          *)
(*   vtype    = 밸브타입 / 'Valve Type'     vkey   = vtype_key             *)
(*   matNo    = 자재번호                    desc   = 내역 / 자재내역       *)
(*   qty      = 수량 / 요청수량             amount = 발주금액-변환         *)
(*   date     = 발주일                      vendor = 발주업체 / 업체명     *)
(*   body2    = BODY2-변환                  bodyUnit = 바디단가-변환       *)
(*   NP, OP, IP, LOCK, IND, LSW, EXT, D13, D14, D16 = the '...-변환'       *)
(*              option unit prices N/P, O-P, I-P, LOCK, IND, L/SW, EXT,    *)
(*              DISC-SCS13, DISC-SCS14, DISC-SCS16                         *)
(*   quote    = 견적가-변환                 weight = 중량                  *)
(*   intPaint = 내부도장, extPaint = 외부도장, spec = 상세사양             *)
(* Numbers are integers; a JavaScript quotient is kept as an exact         *)
(* fraction until Math.round is applied to it.                             *)
(***************************************************************************)
EXTENDS Integers, Sequences, FiniteSets, TLC

VARIABLES
  files,        \* the JSON files under data/ as loadAllData reads them
  cachedData,   \* dataLoader.ts: the module-level cache (NoData = null)
  response,     \* the result object of the last stage execution
  call          \* a single application of a helper function: [fn, arg, out]

vars == <<files, cachedData, response, call>>

NoData == [loaded |-> FALSE]
NoResponse == [stage |-> "none"]
NoCall == [fn |-> "none"]
NoFiles == [price |-> <<>>, perf |-> <<>>, quotes |-> <<>>, lme |-> <<>>]

-----------------------------------------------------------------------------
(* JavaScript string and array primitives                                  *)

Min(a, b) == IF a <= b THEN a ELSE b
Max(a, b) == IF a >= b THEN a ELSE b

CharAt(s, i) == SubSeq(s, i, i)

\* String.prototype.trim over the blank character
RECURSIVE TrimLeft(_)
TrimLeft(s) ==
  IF Len(s) > 0 /\ CharAt(s, 1) = " " THEN TrimLeft(SubSeq(s, 2, Len(s))) ELSE s

RECURSIVE TrimRight(_)
TrimRight(s) ==
  IF Len(s) > 0 /\ CharAt(s, Len(s)) = " "
  THEN TrimRight(SubSeq(s, 1, Len(s) - 1)) ELSE s

Trim(s) == TrimRight(TrimLeft(s))

\* s.split(/\s+/): the maximal blank-free runs; a leading or trailing blank
\* run leaves an empty first or last part, and "" splits into <<"">>
RECURSIVE SplitFrom(_, _, _)
SplitFrom(s, i, cur) ==
  IF i > Len(s) THEN <<cur>>
  ELSE IF CharAt(s, i) = " "
       THEN IF i > 1 /\ CharAt(s, i - 1) = " "
            THEN SplitFrom(s, i + 1, cur)
            ELSE <<cur>> \o SplitFrom(s, i + 1, "")
       ELSE SplitFrom(s, i + 1, cur \o CharAt(s, i))

SplitWS(s) == SplitFrom(s, 1, "")

\* Array.prototype.join
RECURSIVE Join(_, _)
Join(toks, sep) ==
  IF Len(toks) = 0 THEN ""
  ELSE IF Len(toks) = 1 THEN toks[1]
       ELSE toks[1] \o sep \o Join(Tail(toks), sep)

\* Array.prototype.indexOf, 1-based; 0 when absent (JavaScript's -1)
IndexOf(seq, x) ==
  IF \E i \in 1..Len(seq) : seq[i] = x
  THEN CHOOSE i \in 1..Len(seq) : seq[i] = x /\ \A j \in 1..(i - 1) : seq[j] # x
  ELSE 0

\* String.prototype.includes
Includes(s, kw) ==
  \E i \in 1..(Len(s) - Len(kw) + 1) : SubSeq(s, i, i + Len(kw) - 1) = kw

LowerChars == <<"a","b","c","d","e","f","g","h","i","j","k","l","m",
                "n","o","p","q","r","s","t","u","v","w","x","y","z">>
UpperChars == <<"A","B","C","D","E","F","G","H","I","J","K","L","M",
                "N","O","P","Q","R","S","T","U","V","W","X","Y","Z">>

UpperChar(c) ==
  IF \E i \in 1..Len(LowerChars) : LowerChars[i] = c
  THEN UpperChars[CHOOSE i \in 1..Len(LowerChars) : LowerChars[i] = c]
  ELSE c

\* String.prototype.toUpperCase
RECURSIVE ToUpperCase(_)
ToUpperCase(s) ==
  IF Len(s) = 0 THEN ""
  ELSE UpperChar(CharAt(s, 1)) \o ToUpperCase(SubSeq(s, 2, Len(s)))

IsUpperLetter(c) == \E i \in 1..Len(UpperChars) : UpperChars[i] = c

-----------------------------------------------------------------------------
(* utils/helpers.ts: parseOptionsFromDesc                                  *)

markers == <<"TR", "T", "LR">>

\* the for-loop over the markers from marker number m on
RECURSIVE ParseFromMarker(_, _)
ParseFromMarker(parts, m) ==
  IF m > Len(markers) THEN <<>>
  ELSE LET idx == IndexOf(parts, markers[m])
       IN IF idx # 0 /\ idx < Len(parts)
          THEN SubSeq(parts, idx + 1, Len(parts))
          ELSE ParseFromMarker(parts, m + 1)

parseOptionsFromDesc(descStr) == ParseFromMarker(SplitWS(Trim(descStr)), 1)

-----------------------------------------------------------------------------
(* utils/helpers.ts: calcOptionPrice                                       *)
(* The result is [total, detail]; detail is the label -> amount object,    *)
(* a function whose domain is the set of labels written so far.  Labels    *)
(* with Korean text are written "O-P(ext)" = 'O-P(외부도장)',              *)
(* "I-P(int)" = 'I-P(내부도장)', "I-P(desc)" = 'I-P(자재내역)',            *)
(* "O-P(desc)" = 'O-P(자재내역)'.                                          *)

NoPaint == {"N0", "NO", "", "NAN", "NONE"}

kwMap == [x \in {"LOCK", "IND", "L/SW", "EXT", "S-EXT", "H/R-B", "ST-W",
                 "RED-P", "1-L/S", "W/SFT"} |->
            CASE x = "LOCK" -> "LOCK"
              [] x = "IND" -> "IND"
              [] x \in {"L/SW", "1-L/S"} -> "LSW"
              [] OTHER -> "EXT"]

specMap == << <<"SUS316", "D16">>, <<"SCS16", "D16">>, <<"SUS304", "D13">>,
              <<"SCS13", "D13">>, <<"SCS14", "D14">> >>

\* col.replace('-변환', '') of a DISC column
DiscLabel(col) ==
  CASE col = "D16" -> "DISC-SCS16"
    [] col = "D13" -> "DISC-SCS13"
    [] col = "D14" -> "DISC-SCS14"

\* !detail[label]: the label is absent or holds 0
Falsy(detail, label) == label \notin DOMAIN detail \/ detail[label] = 0

\* total += v; detail[label] = v
AddOpt(acc, label, v) ==
  [total |-> acc.total + v,
   detail |-> [l \in DOMAIN acc.detail \cup {label} |->
                 IF l = label THEN v ELSE acc.detail[l]]]

\* AddNamePlate without its npVal > 0 guard
Mut_AddNamePlateUnguarded(priceRow, acc) == AddOpt(acc, "N/P", priceRow.NP)

\* lines 28-33: the nameplate
AddNamePlate(priceRow, acc) ==
  IF priceRow.NP > 0 THEN AddOpt(acc, "N/P", priceRow.NP) ELSE acc

\* lines 35-53: a coating added for a paint code that is no sentinel
AddPaint(priceRow, acc, paint, col, label) ==
  LET p == Trim(ToUpperCase(paint))
  IN IF p # "" /\ p \notin NoPaint /\ priceRow[col] > 0
     THEN AddOpt(acc, label, priceRow[col]) ELSE acc

\* lines 70-107: one token of the description
AddToken(priceRow, acc, opt) ==
  LET ou == Trim(ToUpperCase(opt))
  IN CASE ou \in {"I-T", "I/O-T"} ->
            IF /\ priceRow.IP > 0
               /\ Falsy(acc.detail, "I-P(int)")
               /\ Falsy(acc.detail, "I-P(desc)")
            THEN AddOpt(acc, "I-P(desc)", priceRow.IP) ELSE acc
       [] ou = "I/O-P" ->
            LET a1 == IF priceRow.IP > 0 /\ Falsy(acc.detail, "I-P(int)")
                      THEN AddOpt(acc, "I-P(I/O-P)", priceRow.IP) ELSE acc
            IN IF priceRow.OP > 0 /\ Falsy(a1.detail, "O-P(ext)")
               THEN AddOpt(a1, "O-P(I/O-P)", priceRow.OP) ELSE a1
       [] ou = "O-P" ->
            IF priceRow.OP > 0 /\ Falsy(acc.detail, "O-P(ext)")
            THEN AddOpt(acc, "O-P(desc)", priceRow.OP) ELSE acc
       [] ou \in DOMAIN kwMap ->
            IF priceRow[kwMap[ou]] > 0
            THEN AddOpt(acc, ou, priceRow[kwMap[ou]]) ELSE acc
       [] ou = "RUB-C" ->
            IF priceRow.D16 > 0 THEN AddOpt(acc, "RUB-C", priceRow.D16) ELSE acc
       [] OTHER -> acc

\* lines 69-108: the loop over the description's tokens
RECURSIVE AddTokens(_, _, _, _)
AddTokens(priceRow, acc, descOptions, i) ==
  IF i > Len(descOptions) THEN acc
  ELSE AddTokens(priceRow, AddToken(priceRow, acc, descOptions[i]),
                 descOptions, i + 1)

\* lines 110-132: the first keyword of specMap the spec contains, then break
AddDetailSpec(priceRow, acc, detailSpec) ==
  LET su == ToUpperCase(detailSpec)
      hits == {k \in 1..Len(specMap) : Includes(su, specMap[k][1])}
  IN IF detailSpec = "" \/ hits = {} THEN acc
     ELSE LET k == CHOOSE k \in hits : \A j \in hits : k <= j
              col == specMap[k][2]
              label == DiscLabel(col)
          IN IF priceRow[col] > 0 /\ Falsy(acc.detail, label)
             THEN AddOpt(acc, label, priceRow[col]) ELSE acc

calcOptionPrice(priceRow, descOptions, intPaint, extPaint, detailSpec) ==
  LET a0 == [total |-> 0, detail |-> <<>>]
      a1 == AddNamePlate(priceRow, a0)
      a2 == AddPaint(priceRow, a1, extPaint, "OP", "O-P(ext)")
      a3 == AddPaint(priceRow, a2, intPaint, "IP", "I-P(int)")
      a4 == AddTokens(priceRow, a3, descOptions, 1)
  IN AddDetailSpec(priceRow, a4, detailSpec)

-----------------------------------------------------------------------------
(* services/dataLoader.ts: loadAllData and the accessors                   *)

\* toNumber(x) || 1 on a numeric cell
OrOne(n) == IF n = 0 THEN 1 ELSE n

\* Math.round(num / den) for den > 0: the nearest integer, halves upwards
Round(num, den) == (2 * num + den) \div (2 * den)

\* Map.get; an absent key reads as no rows
MapGet(m, k) == IF k \in DOMAIN m THEN m[k] ELSE <<>>

\* the loop "if (!map.has(key)) map.set(key, []); map.get(key).push(row)"
\* over rows i.., where keys[i] is the key of rows[i]; skipEmpty is the
\* guard "if (key)" of the type-only lookups
RECURSIVE BuildLookup(_, _, _, _, _)
BuildLookup(rows, keys, skipEmpty, i, m) ==
  IF i > Len(rows) THEN m
  ELSE IF skipEmpty /\ keys[i] = "" THEN BuildLookup(rows, keys, skipEmpty, i + 1, m)
  ELSE BuildLookup(rows, keys, skipEmpty, i + 1,
         [k \in DOMAIN m \cup {keys[i]} |->
            IF k = keys[i] THEN Append(MapGet(m, k), rows[i]) ELSE m[k]])

\* value.slice(0, -1) when the code is longer than one character, else ''
VtypeKeyOf(vtype) ==
  IF Len(vtype) > 1 THEN SubSeq(vtype, 1, Len(vtype) - 1) ELSE ""

\* lines 114-127
CleanPriceRow(row) ==
  [row EXCEPT !.vtype = Trim(row.vtype), !.qty = OrOne(row.qty)]

\* lines 143-156
CleanPerfRow(row) ==
  LET vt == Trim(row.vtype)
  IN [matNo |-> Trim(row.matNo), desc |-> Trim(row.desc), vendor |-> row.vendor,
      date |-> row.date, amount |-> row.amount, qty |-> OrOne(row.qty),
      vtype |-> vt, vkey |-> VtypeKeyOf(vt)]

\* lines 159-164: material id -> type code, a later row overwriting an earlier
RECURSIVE MatToVtype(_, _, _)
MatToVtype(performance, i, m) ==
  IF i > Len(performance) THEN m
  ELSE LET row == performance[i]
       IN IF row.vtype # "" /\ row.matNo # ""
          THEN MatToVtype(performance, i + 1,
                 [k \in DOMAIN m \cup {row.matNo} |->
                    IF k = row.matNo THEN row.vtype ELSE m[k]])
          ELSE MatToVtype(performance, i + 1, m)

\* lines 170-186; a quote that is joined to no type code has neither field,
\* which every reader takes as '' (vr.vtype_key || '')
CleanQuoteRow(row, matToVtype) ==
  LET mat == Trim(row.matNo)
      vt == IF mat \in DOMAIN matToVtype THEN matToVtype[mat] ELSE ""
  IN [No |-> row.No, matNo |-> mat, desc |-> Trim(row.desc),
      qty |-> OrOne(row.qty), weight |-> row.weight, quote |-> row.quote,
      intPaint |-> Trim(row.intPaint), extPaint |-> Trim(row.extPaint),
      spec |-> Trim(row.spec), parts |-> row.parts,
      vtype |-> vt, vkey |-> VtypeKeyOf(vt)]

\* lines 129-137: type key -> price rows, in the order of the table
PriceLookupOf(priceTable) ==
  BuildLookup(priceTable, [i \in 1..Len(priceTable) |-> priceTable[i].vtype],
              FALSE, 1, <<>>)

\* lines 170-186 over the whole quote sheet
JoinQuotes(quotes, matToVtype) ==
  [i \in 1..Len(quotes) |-> CleanQuoteRow(quotes[i], matToVtype)]

\* lines 190-196: the cache object
Store(priceTable, performance, quotes, lme) ==
  [loaded |-> TRUE,
   priceTable |-> priceTable,
   performance |-> performance,
   vendorQuotes |-> JoinQuotes(quotes, MatToVtype(performance, 1, <<>>)),
   lme |-> lme,
   priceLookup |-> PriceLookupOf(priceTable)]

loadAllData(f) ==
  Store([i \in 1..Len(f.price) |-> CleanPriceRow(f.price[i])],
        [i \in 1..Len(f.perf) |-> CleanPerfRow(f.perf[i])],
        f.quotes,
        f.lme)

\* the store rebuilt from the files by every call
Mut_LoadedDataReload == loadAllData(files)

\* "if (cachedData) return cachedData" and the load otherwise
LoadedData == IF cachedData.loaded THEN cachedData ELSE loadAllData(files)

getPriceTable(store) == IF store.loaded THEN store.priceTable ELSE <<>>
getVendorQuotes(store) == IF store.loaded THEN store.vendorQuotes ELSE <<>>
getPerformance(store) == IF store.loaded THEN store.performance ELSE <<>>
getLME(store) == IF store.loaded THEN store.lme ELSE <<>>
getPriceLookup(store) == IF store.loaded THEN store.priceLookup ELSE <<>>

-----------------------------------------------------------------------------
(* services/stepA.ts: generatePRItems and executeStepA1                    *)

TierTypeSize == "typeAndSize"    \* '타입+자재내역일치'
TierTypeOnly == "typeOnly"       \* '타입일치'
Matched == "matched"             \* 매핑상태 '성공'
Unmatched == "unmatched"         \* 매핑상태 '실패'

\* the length of the leading run of upper-case letters
RECURSIVE UpperRun(_, _)
UpperRun(s, i) ==
  IF i <= Len(s) /\ IsUpperLetter(CharAt(s, i)) THEN UpperRun(s, i + 1) ELSE i - 1

\* vtype.match(/^([A-Z]+)/), else vtype.slice(0, 6)
extractTypePrefix(vtype) ==
  IF UpperRun(vtype, 1) > 0 THEN SubSeq(vtype, 1, UpperRun(vtype, 1))
  ELSE SubSeq(vtype, 1, Min(6, Len(vtype)))

\* rows.sort((a, b) => date(b) - date(a)): descending by order date, rows of
\* equal date keeping their order (Array.prototype.sort is stable)
RECURSIVE SortByDateDesc(_)
SortByDateDesc(rows) ==
  IF Len(rows) <= 1 THEN rows
  ELSE LET x == rows[Len(rows)]
           rest == SortByDateDesc(SubSeq(rows, 1, Len(rows) - 1))
           pos == Cardinality({i \in 1..Len(rest) : rest[i].date >= x.date})
       IN SubSeq(rest, 1, pos) \o <<x>> \o SubSeq(rest, pos + 1, Len(rest))

\* Array.prototype.filter
RECURSIVE Filter(_, _)
Filter(rows, keep) ==
  IF rows = <<>> THEN <<>>
  ELSE (IF keep[1] THEN <<rows[1]>> ELSE <<>>)
       \o Filter(Tail(rows), Tail(keep))

\* Array.prototype.slice(0, n)
Take(rows, n) == SubSeq(rows, 1, Min(n, Len(rows)))

totalTarget == 1150
typeSizeTarget == Round(totalTarget * 95, 100)
typeOnlyTarget == Round(totalTarget * 4, 100)
failTarget == totalTarget - typeSizeTarget - typeOnlyTarget

\* lines 67-96: the representative rows, first of each vtype|desc combination,
\* each with its category
RECURSIVE Representatives(_, _, _)
Representatives(validPerf, i, seen) ==
  IF i > Len(validPerf) THEN <<>>
  ELSE LET row == validPerf[i]
           key == row.vtype \o "|" \o row.desc
       IN IF key \in seen THEN Representatives(validPerf, i + 1, seen)
          ELSE <<row>> \o Representatives(validPerf, i + 1, seen \cup {key})

PRItemOf(row) ==
  [matNo |-> row.matNo, desc |-> row.desc, vtype |-> row.vtype,
   vkey |-> IF row.vkey # "" THEN row.vkey
            ELSE SubSeq(row.vtype, 1, Len(row.vtype) - 1),
   qty |-> row.qty, amount |-> row.amount, date |-> row.date,
   vendor |-> row.vendor]

\* the category decided on the whole type code, the last character kept
Mut_PRCategoryFullCode(row, priceVtypes, priceTypePrefixes) ==
  IF row.vtype \in priceVtypes THEN "typeAndSize"
  ELSE IF extractTypePrefix(row.vtype) \in priceTypePrefixes THEN "typeOnly"
  ELSE "unmatched"

\* lines 87-94: the category of a representative row
PRCategory(row, priceVtypes, priceTypePrefixes) ==
  IF SubSeq(row.vtype, 1, Len(row.vtype) - 1) \in priceVtypes THEN TierTypeSize
  ELSE IF extractTypePrefix(row.vtype) \in priceTypePrefixes THEN TierTypeOnly
  ELSE Unmatched

\* the rows with a type code in the order of the file, never sorted
Mut_ValidPerfFileOrder(performance) ==
  Filter(performance,
    [i \in 1..Len(performance) |->
       performance[i].vtype # "" /\ performance[i].vtype # "nan"])

\* lines 57-64: the rows with a type code, most recent first
ValidPerf(performance) ==
  SortByDateDesc(Filter(performance,
    [i \in 1..Len(performance) |->
       performance[i].vtype # "" /\ performance[i].vtype # "nan"]))

\* lines 87-94 over the representatives
CategoriesOf(reps, priceVtypes) ==
  [i \in 1..Len(reps) |->
     PRCategory(reps[i], priceVtypes, {extractTypePrefix(v) : v \in priceVtypes})]

\* lines 104-106: the first n items of one category
TakeCategory(reps, cat, c, n) ==
  Take(Filter([i \in 1..Len(reps) |-> PRItemOf(reps[i])],
              [i \in 1..Len(reps) |-> cat[i] = c]), n)

\* lines 98-110
SelectPRItems(reps, cat) ==
  TakeCategory(reps, cat, TierTypeSize, typeSizeTarget)
  \o TakeCategory(reps, cat, TierTypeOnly, typeOnlyTarget)
  \o TakeCategory(reps, cat, Unmatched, failTarget)

PRItemsOf(performance, priceTable) ==
  SelectPRItems(Representatives(ValidPerf(performance), 1, {}),
                CategoriesOf(Representatives(ValidPerf(performance), 1, {}),
                             {priceTable[i].vtype : i \in 1..Len(priceTable)}))

generatePRItems(store) == PRItemsOf(getPerformance(store), getPriceTable(store))

\* pr.요청수량 > 0 ? pr.요청수량 : 1
PosOrOne(n) == IF n > 0 THEN n ELSE 1

\* the type-only lookup consulted before the type+size lookup
Mut_TierLookupTypeFirst(priceLookup, typeOnlyLookup, key1, key2) ==
  IF Len(MapGet(typeOnlyLookup, key2)) > 0
  THEN [rows |-> MapGet(typeOnlyLookup, key2), tier |-> "typeOnly"]
  ELSE [rows |-> MapGet(priceLookup, key1), tier |-> "typeAndSize"]

\* the last row of the bucket instead of the first
Mut_LastRow(priceRows) == priceRows[Len(priceRows)]

\* the rows found at the second priority keep the label '-'
Mut_TierLookupUnlabelled(priceLookup, typeOnlyLookup, key1, key2) ==
  IF Len(MapGet(priceLookup, key1)) > 0
  THEN [rows |-> MapGet(priceLookup, key1), tier |-> "typeAndSize"]
  ELSE [rows |-> MapGet(typeOnlyLookup, key2), tier |-> "-"]

\* lines 207-215: the price rows of a target and the tier they were found at
TierLookup(priceLookup, typeOnlyLookup, key1, key2) ==
  IF Len(MapGet(priceLookup, key1)) > 0
  THEN [rows |-> MapGet(priceLookup, key1), tier |-> TierTypeSize]
  ELSE [rows |-> MapGet(typeOnlyLookup, key2), tier |-> TierTypeOnly]

\* priceRows[0]
FirstRow(priceRows) == priceRows[1]

\* the option price added once, not per requested piece
Mut_A1PricedFlatOption(base, pt, tier, optTotal, ptQty) ==
  [base EXCEPT !.status = "matched", !.tier = tier,
     !.vendor = pt.vendor,
     !.body = Round(pt.body2, ptQty),
     !.opt = optTotal,
     !.sum = Round(pt.body2 + optTotal * ptQty, ptQty),
     !.total = Round(pt.body2 * base.qty + optTotal * ptQty, ptQty)]

\* lines 217-238: the prices of a matched PR item, from its price row
A1Priced(base, pt, tier, optTotal, ptQty) ==
  [base EXCEPT !.status = Matched, !.tier = tier,
     !.vendor = pt.vendor,
     !.body = Round(pt.body2, ptQty),
     !.opt = optTotal,
     !.sum = Round(pt.body2 + optTotal * ptQty, ptQty),
     !.total = Round((pt.body2 + optTotal * ptQty) * base.qty, ptQty)]

A1Base(pr) ==
  [matNo |-> pr.matNo, desc |-> pr.desc, vtype |-> pr.vtype,
   status |-> Unmatched, tier |-> "-", body |-> 0, opt |-> 0,
   sum |-> 0, qty |-> PosOrOne(pr.qty), total |-> 0, vendor |-> ""]

A1From(pr, found) ==
  IF Len(found.rows) > 0
  THEN A1Priced(A1Base(pr), FirstRow(found.rows), found.tier,
                calcOptionPrice(FirstRow(found.rows),
                                parseOptionsFromDesc(pr.desc), "", "", "").total,
                PosOrOne(FirstRow(found.rows).qty))
  ELSE A1Base(pr)

\* lines 184-239: the result of one PR item
StepA1Result(pr, priceLookup, typeOnlyLookup) ==
  A1From(pr, TierLookup(priceLookup, typeOnlyLookup,
                        SubSeq(pr.vtype, 1, Len(pr.vtype) - 1),
                        extractTypePrefix(pr.vtype)))

CountIf(results, test) == Cardinality({i \in 1..Len(results) : test[i]})

\* the stage result with the count per status and tier
MatchStage(stage, results) ==
  [stage |-> stage, results |-> results,
   summary |-> [total |-> Len(results),
                matched |-> CountIf(results, [i \in 1..Len(results) |->
                              results[i].status = Matched]),
                unmatched |-> Len(results)
                              - CountIf(results, [i \in 1..Len(results) |->
                                  results[i].status = Matched]),
                typeSize |-> CountIf(results, [i \in 1..Len(results) |->
                               results[i].tier = TierTypeSize]),
                typeOnly |-> CountIf(results, [i \in 1..Len(results) |->
                               results[i].tier = TierTypeOnly])]]

\* lines 160-170: type prefix -> price rows, rows without a prefix left out
A1TypeOnlyLookup(priceTable) ==
  BuildLookup(priceTable,
    [i \in 1..Len(priceTable) |-> extractTypePrefix(priceTable[i].vtype)],
    TRUE, 1, <<>>)

A1Results(prItems, priceLookup, typeOnlyLookup) ==
  [i \in 1..Len(prItems) |-> StepA1Result(prItems[i], priceLookup, typeOnlyLookup)]

executeStepA1(store) ==
  MatchStage("A1", A1Results(generatePRItems(store), getPriceLookup(store),
                             A1TypeOnlyLookup(getPriceTable(store))))

-----------------------------------------------------------------------------
(* services/stepB.ts: executeStepB1, executeStepB2, executeStepB3          *)

\* lines 150-200: the contract price of a matched quote, from its price row
B1Priced(base, pt, tier, optTotal, bodyTotal) ==
  [base EXCEPT !.status = Matched, !.tier = tier,
     !.body = bodyTotal,
     !.optNP = pt.NP * base.qty,
     !.optOP = pt.OP * base.qty,
     !.contract = bodyTotal + optTotal * base.qty]

B1Base(vr) ==
  [No |-> vr.No, matNo |-> vr.matNo, desc |-> vr.desc,
   vtype |-> vr.vtype, status |-> Unmatched, tier |-> "-",
   qty |-> PosOrOne(vr.qty), quote |-> vr.quote, body |-> 0, optNP |-> 0,
   optOP |-> 0, contract |-> 0, causes |-> {}, cause |-> "-"]

Abs(x) == IF x < 0 THEN -x ELSE x

\* the cost components that are compared, in the order they are reported
Components == <<"body", "NP", "ext", "int", "LOCK">>

\* the column of the price table that holds the contract price of an option
ContractCol(c) ==
  IF c = "NP" THEN "NP" ELSE IF c = "ext" THEN "OP"
  ELSE IF c = "int" THEN "IP" ELSE "LOCK"

\* lines 175-186: what the vendor quotes and what the contract gives for a
\* component of a quote of qty pieces, the body at its rounded contract price
QuoteAmount(vr, c, qty) == vr.parts[c] * qty

ContractAmount(pt, c, qty, bodyTotal) ==
  IF c = "body" THEN bodyTotal ELSE pt[ContractCol(c)] * qty

\* lines 188-228: the components whose difference exceeds 100
B1Causes(vr, pt, qty, bodyTotal) ==
  {c \in {Components[k] : k \in 1..Len(Components)} :
     Abs(QuoteAmount(vr, c, qty) - ContractAmount(pt, c, qty, bodyTotal)) > 100}

CauseListed == "listed"          \* the reported components joined by ', '
CauseMatch == "match"            \* '일치'
CauseOther == "other"            \* '기타 옵션 차이'

\* lines 230-237
B1CauseText(causes, quote, contractTotal) ==
  IF causes # {} THEN CauseListed
  ELSE IF Abs(quote - contractTotal) < 100 THEN CauseMatch
  ELSE CauseOther

\* lines 168-238: the cause analysis, made when the contract total is positive
B1WithCause(r, vr, pt) ==
  IF r.contract > 0
  THEN [r EXCEPT !.causes = B1Causes(vr, pt, r.qty, r.body),
                 !.cause = B1CauseText(B1Causes(vr, pt, r.qty, r.body),
                                       vr.quote, r.contract)]
  ELSE r

B1From(vr, found) ==
  IF Len(found.rows) > 0
  THEN B1WithCause(
         B1Priced(B1Base(vr), FirstRow(found.rows), found.tier,
                  calcOptionPrice(FirstRow(found.rows), parseOptionsFromDesc(vr.desc),
                                  vr.intPaint, vr.extPaint, vr.spec).total,
                  FirstRow(found.rows).bodyUnit * vr.weight * PosOrOne(vr.qty)),
         vr, FirstRow(found.rows))
  ELSE B1Base(vr)

\* lines 103-241: the result of one vendor quote against the price table
StepB1Result(vr, priceLookup, typeOnlyLookup) ==
  B1From(vr, TierLookup(priceLookup, typeOnlyLookup, vr.vkey, vr.vtype))

\* lines 76-86: full type code -> price rows, rows without a code left out
B1TypeOnlyLookup(priceTable) ==
  BuildLookup(priceTable,
    [i \in 1..Len(priceTable) |-> priceTable[i].vtype], TRUE, 1, <<>>)

B1Results(vendorQuotes, priceLookup, typeOnlyLookup) ==
  [i \in 1..Len(vendorQuotes) |->
     StepB1Result(vendorQuotes[i], priceLookup, typeOnlyLookup)]

executeStepB1(store) ==
  MatchStage("B1", B1Results(getVendorQuotes(store), getPriceLookup(store),
                             B1TypeOnlyLookup(getPriceTable(store))))

\* stepB.ts lines 520-785: analyzePriceDifference

AnalysisFailed == "failed"       \* '단가표 매핑 실패 - 계약단가 비교 불가'
AnalysisNear == "near"           \* '견적가와 계약총액이 거의 일치'
AnalysisUnknown == "unknown"     \* '원인 불명 - 상세 항목 확인 필요'

Options == <<"NP", "ext", "int", "LOCK">>

\* lines 598-604: the body at its unrounded contract price, the options and
\* the disc at the price of the table for qty pieces
AnalysisContract(pt, vr, c, qty) ==
  IF c = "body" THEN pt.bodyUnit * vr.weight * qty
  ELSE IF c = "disc" THEN pt.D16 * qty
  ELSE pt[ContractCol(c)] * qty

AnalysisQuote(vr, c, qty) ==
  IF c = "disc" THEN vr.parts.rub * qty ELSE vr.parts[c] * qty

\* lines 632, 653, 674, 695, 716: an option is compared when the quote or the
\* contract has a price for it; the body always
Compared(pt, vr, c, qty) ==
  \/ c = "body"
  \/ (IF c = "disc" THEN vr.parts.rub ELSE vr.parts[c]) > 0
  \/ AnalysisContract(pt, vr, c, qty) > 0

AnalysisItems(pt, vr, qty) ==
  {c \in {"body", "NP", "ext", "int", "LOCK", "disc"} : Compared(pt, vr, c, qty)}

\* lines 623, 643, 664, 685, 706, 727: the compared components whose
\* difference exceeds 100
AnalysisCauses(pt, vr, qty) ==
  {c \in AnalysisItems(pt, vr, qty) :
     Abs(AnalysisQuote(vr, c, qty) - AnalysisContract(pt, vr, c, qty)) > 100}

RECURSIVE SumOver(_, _, _, _)
SumOver(pt, vr, qty, items) ==
  IF items = {} THEN 0
  ELSE LET c == CHOOSE x \in items : TRUE
       IN AnalysisContract(pt, vr, c, qty) + SumOver(pt, vr, qty, items \ {c})

\* lines 732-759: the totals and the message of an analysis without a cause
AnalysisOf(base, pt, vr, qty, contractTotal) ==
  [base EXCEPT !.status = Matched,
     !.contract = contractTotal,
     !.diff = vr.quote - contractTotal,
     !.items = AnalysisItems(pt, vr, qty),
     !.causes = AnalysisCauses(pt, vr, qty),
     !.missing = {c \in AnalysisCauses(pt, vr, qty) \cap {"NP", "ext", "int", "LOCK"} :
                    AnalysisContract(pt, vr, c, qty) = 0},
     !.note = IF AnalysisCauses(pt, vr, qty) # {} THEN CauseListed
              ELSE IF Abs(vr.quote - contractTotal) < 100 THEN AnalysisNear
              ELSE AnalysisUnknown]

AnalysisBase(vr) ==
  [No |-> vr.No, matNo |-> vr.matNo, desc |-> vr.desc, vtype |-> vr.vtype,
   status |-> Unmatched, quote |-> vr.quote, contract |-> 0, diff |-> 0,
   items |-> {}, causes |-> {}, missing |-> {}, note |-> AnalysisFailed]

\* lines 551-761: the analysis of one vendor quote
AnalysisResult(vr, found) ==
  IF Len(found.rows) > 0
  THEN AnalysisOf(AnalysisBase(vr), FirstRow(found.rows), vr, PosOrOne(vr.qty),
                  SumOver(FirstRow(found.rows), vr, PosOrOne(vr.qty),
                          AnalysisItems(FirstRow(found.rows), vr, PosOrOne(vr.qty))))
  ELSE AnalysisBase(vr)

\* lines 764-784
AnalysisStage(results) ==
  [stage |-> "B1X", results |-> results,
   summary |-> [total |-> Len(results),
                analyzed |-> CountIf(results, [i \in 1..Len(results) |->
                               results[i].status = Matched]),
                hasBodyDiff |-> CountIf(results, [i \in 1..Len(results) |->
                                  "body" \in results[i].causes]),
                hasOptionDiff |-> CountIf(results, [i \in 1..Len(results) |->
                                    results[i].causes \ {"body"} # {}]),
                hasMissingOption |-> CountIf(results, [i \in 1..Len(results) |->
                                       results[i].missing # {}])]]

\* lines 547-549: the quotes of one No, or all of them without a No
TargetQuotes(vendorQuotes, itemNo) ==
  IF itemNo # 0
  THEN Filter(vendorQuotes, [i \in 1..Len(vendorQuotes) |-> vendorQuotes[i].No = itemNo])
  ELSE vendorQuotes

AnalysisResults(targetQuotes, priceLookup, typeOnlyLookup) ==
  [i \in 1..Len(targetQuotes) |->
     AnalysisResult(targetQuotes[i],
                    TierLookup(priceLookup, typeOnlyLookup,
                               targetQuotes[i].vkey, targetQuotes[i].vtype))]

analyzePriceDifference(store, itemNo) ==
  AnalysisStage(AnalysisResults(TargetQuotes(getVendorQuotes(store), itemNo),
                                getPriceLookup(store),
                                B1TypeOnlyLookup(getPriceTable(store))))

TierExact == "exactDescription"  \* '동일내역'
TierSimilar == "similarType"     \* '유사타입'
TierUnmapped == "unmapped"       \* '미매핑'
NoDate == 0                      \* 발주일 '-'

Digits == {"0", "1", "2", "3", "4", "5", "6", "7", "8", "9"}

\* the end of the run of digits that starts at position i
RECURSIVE DigitRunEnd(_, _)
DigitRunEnd(s, i) ==
  IF i < Len(s) /\ CharAt(s, i + 1) \in Digits THEN DigitRunEnd(s, i + 1) ELSE i

\* s.match(/(\d+X)/) for a letter X: the leftmost run of digits that X
\* follows, with the X; '' without a match
DigitsThen(s, x) ==
  LET starts == {i \in 1..Len(s) :
                   /\ CharAt(s, i) \in Digits
                   /\ DigitRunEnd(s, i) < Len(s)
                   /\ CharAt(s, DigitRunEnd(s, i) + 1) = x}
  IN IF starts = {} THEN ""
     ELSE LET i == CHOOSE i \in starts : \A j \in starts : i <= j
          IN SubSeq(s, i, DigitRunEnd(s, i) + 1)

\* the length of the leading run of [A-Z-]
RECURSIVE TypeRun(_, _)
TypeRun(s, i) ==
  IF i <= Len(s) /\ (IsUpperLetter(CharAt(s, i)) \/ CharAt(s, i) = "-")
  THEN TypeRun(s, i + 1) ELSE i - 1

\* lines 313-329 on the normalised description
KeywordsOf(normalized) ==
  [type |-> SubSeq(normalized, 1, TypeRun(normalized, 1)),
   size |-> DigitsThen(normalized, "A"),
   pressure |-> DigitsThen(normalized, "K")]

extractDescKeywords(desc) == KeywordsOf(Trim(Join(SplitWS(desc), " ")))

\* the two prices stored in each other's field
Mut_PricedTopSwapped(base, top, tier) ==
  [base EXCEPT !.tier = tier, !.vendor = top.vendor,
     !.date = top.date,
     !.recent = Round(top.amount * base.qty * 9, PosOrOne(top.qty) * 10),
     !.target = Round(top.amount * base.qty, PosOrOne(top.qty))]

\* the negotiation target taken as 0.9 of the rounded recent-order price
Mut_PricedTopFromRounded(base, top, tier) ==
  [base EXCEPT !.tier = tier, !.vendor = top.vendor,
     !.date = top.date,
     !.recent = Round(top.amount * base.qty, PosOrOne(top.qty)),
     !.target = Round(Round(top.amount * base.qty, PosOrOne(top.qty)) * 9, 10)]

\* the fields a result takes from the row "top" of the order history
PricedTop(base, top, tier) ==
  [base EXCEPT !.tier = tier, !.vendor = top.vendor,
     !.date = top.date,
     !.recent = Round(top.amount * base.qty, PosOrOne(top.qty)),
     !.target = Round(top.amount * base.qty * 9, PosOrOne(top.qty) * 10)]

\* the first row of the pool in file order, without the sort by date
Mut_PricedFromFirst(base, pool, tier) == PricedTop(base, pool[1], tier)

\* the fields a result takes from the most recent row of a pool
PricedFrom(base, pool, tier) == PricedTop(base, SortByDateDesc(pool)[1], tier)

B2Base(vr) ==
  [No |-> vr.No, matNo |-> vr.matNo, desc |-> vr.desc,
   tier |-> TierUnmapped, vendor |-> "", qty |-> PosOrOne(vr.qty),
   quote |-> vr.quote, date |-> NoDate, recent |-> 0, target |-> 0]

\* the order rows without a type code left in the keyword pool
Mut_B2ByKeywordsAnyRow(vr, performance, q) ==
  IF q.type # "" /\ q.size # "" /\ q.pressure # ""
  THEN LET similarPool ==
             Filter(performance,
               [i \in 1..Len(performance) |->
                  /\ performance[i].desc # ""
                  /\ extractDescKeywords(performance[i].desc) = q])
       IN IF Len(similarPool) > 0
          THEN PricedFrom(B2Base(vr), similarPool, TierSimilar)
          ELSE B2Base(vr)
  ELSE B2Base(vr)

\* lines 405-440: a quote without a type key, by the keywords q of its
\* description
B2ByKeywords(vr, performance, q) ==
  IF q.type # "" /\ q.size # "" /\ q.pressure # ""
  THEN LET similarPool ==
             Filter(performance,
               [i \in 1..Len(performance) |->
                  /\ performance[i].desc # ""
                  /\ performance[i].vtype # ""
                  /\ extractDescKeywords(performance[i].desc) = q])
       IN IF Len(similarPool) > 0
          THEN PricedFrom(B2Base(vr), similarPool, TierSimilar)
          ELSE B2Base(vr)
  ELSE B2Base(vr)

\* lines 370-403: a quote with a type key, by the order rows of that key
B2ByKey(vr, pool) ==
  IF Len(pool) = 0 THEN B2Base(vr)
  ELSE LET exactMatch == Filter(pool, [i \in 1..Len(pool) |->
                                         Trim(pool[i].desc) = Trim(vr.desc)])
       IN IF Len(exactMatch) > 0
          THEN PricedFrom(B2Base(vr), exactMatch, TierExact)
          ELSE PricedFrom(B2Base(vr), pool, TierSimilar)

\* lines 348-458: the result of one vendor quote against the order history
StepB2Result(vr, performance) ==
  IF vr.vkey = ""
  THEN B2ByKeywords(vr, performance, extractDescKeywords(vr.desc))
  ELSE B2ByKey(vr, Filter(performance,
                 [i \in 1..Len(performance) |-> performance[i].vkey = vr.vkey]))

\* the quotes without a historical row left out of the results
Mut_B2ResultsMappedOnly(vendorQuotes, performance) ==
  Filter([i \in 1..Len(vendorQuotes) |-> StepB2Result(vendorQuotes[i], performance)],
         [i \in 1..Len(vendorQuotes) |->
            StepB2Result(vendorQuotes[i], performance).tier # TierUnmapped])

B2Results(vendorQuotes, performance) ==
  [i \in 1..Len(vendorQuotes) |-> StepB2Result(vendorQuotes[i], performance)]

B2Stage(results) ==
  [stage |-> "B2", results |-> results,
   summary |-> [total |-> Len(results),
                exact |-> CountIf(results, [i \in 1..Len(results) |->
                            results[i].tier = TierExact]),
                similar |-> CountIf(results, [i \in 1..Len(results) |->
                              results[i].tier = TierSimilar]),
                unmapped |-> CountIf(results, [i \in 1..Len(results) |->
                               results[i].tier = TierUnmapped])]]

executeStepB2(store) ==
  B2Stage(B2Results(getVendorQuotes(store), getPerformance(store)))

\* stepA.ts lines 298-308: the result of a PR item before any mapping
A2Base(pr) ==
  [matNo |-> pr.matNo, desc |-> pr.desc, vtype |-> pr.vtype,
   tier |-> TierUnmapped, vendor |-> "", date |-> NoDate,
   qty |-> PosOrOne(pr.qty), recent |-> 0, target |-> 0]

\* stepA.ts lines 315-348: a PR item by its pool of order rows
A2ByPool(pr, pool) ==
  IF Len(pool) = 0 THEN A2Base(pr)
  ELSE LET exactMatch == Filter(pool, [i \in 1..Len(pool) |->
                                         Trim(pool[i].desc) = Trim(pr.desc)])
       IN IF Len(exactMatch) > 0
          THEN PricedFrom(A2Base(pr), exactMatch, TierExact)
          ELSE PricedFrom(A2Base(pr), pool, TierSimilar)

\* the pool of a PR item with the rows of its own material left in
Mut_StepA2ResultOwnMaterial(pr, performance) ==
  A2ByPool(pr, Filter(performance,
             [i \in 1..Len(performance) |-> performance[i].vkey = pr.vkey]))

\* stepA.ts lines 292-351: the result of one PR item against the order
\* history; the pool is the rows of its key that are not its own material
StepA2Result(pr, performance) ==
  A2ByPool(pr, Filter(performance,
             [i \in 1..Len(performance) |->
                /\ performance[i].vkey = pr.vkey
                /\ performance[i].matNo # pr.matNo]))

A2Results(prItems, performance) ==
  [i \in 1..Len(prItems) |-> StepA2Result(prItems[i], performance)]

A2Stage(results) ==
  [stage |-> "A2", results |-> results,
   summary |-> [total |-> Len(results),
                exact |-> CountIf(results, [i \in 1..Len(results) |->
                            results[i].tier = TierExact]),
                similar |-> CountIf(results, [i \in 1..Len(results) |->
                              results[i].tier = TierSimilar]),
                unmapped |-> CountIf(results, [i \in 1..Len(results) |->
                               results[i].tier = TierUnmapped])]]

executeStepA2(store) ==
  A2Stage(A2Results(generatePRItems(store), getPerformance(store)))

Excellent == "excellent"         \* '우수'
Acceptable == "acceptable"       \* '보통'
Unacceptable == "unacceptable"   \* '부적절'
Indeterminate == "indeterminate" \* '판단불가'

\* the recent-order price compared strictly
Mut_FairnessStrict(est, r90, r100, cont) ==
  IF est <= 0 THEN "indeterminate"
  ELSE IF r90 > 0 /\ r90 >= est THEN "excellent"
  ELSE IF (r100 > 0 /\ r100 > est) \/ (cont > 0 /\ cont >= est) THEN "acceptable"
  ELSE IF r100 > 0 \/ cont > 0 THEN "unacceptable"
  ELSE "indeterminate"

\* the target compared the wrong way round
Mut_FairnessTargetBelow(est, r90, r100, cont) ==
  IF est <= 0 THEN "indeterminate"
  ELSE IF r90 > 0 /\ r90 <= est THEN "excellent"
  ELSE IF (r100 > 0 /\ r100 >= est) \/ (cont > 0 /\ cont >= est) THEN "acceptable"
  ELSE IF r100 > 0 \/ cont > 0 THEN "unacceptable"
  ELSE "indeterminate"

\* lines 832-846: the verdict chain
Fairness(est, r90, r100, cont) ==
  IF est <= 0 THEN Indeterminate
  ELSE IF r90 > 0 /\ r90 >= est THEN Excellent
  ELSE IF (r100 > 0 /\ r100 >= est) \/ (cont > 0 /\ cont >= est) THEN Acceptable
  ELSE IF r100 > 0 \/ cont > 0 THEN Unacceptable
  ELSE Indeterminate

\* new Map(b2Results.map(r => [r.No, r])).get(no): of the entries with one
\* No the last one stays
B2MapGet(b2Results, no) ==
  b2Results[CHOOSE i \in 1..Len(b2Results) :
              /\ b2Results[i].No = no
              /\ \A j \in (i + 1)..Len(b2Results) : b2Results[j].No # no]

\* lines 806-848: the result of one B1 result merged with its B2 result
StepB3Result(b1, b2) ==
  [No |-> b1.No, matNo |-> b1.matNo, desc |-> b1.desc, body |-> b1.body,
   quote |-> b1.quote, contract |-> b1.contract, date |-> b2.date,
   recent |-> b2.recent, target |-> b2.target, vendor |-> b2.vendor,
   verdict |-> Fairness(b1.quote, b2.target, b2.recent, b1.contract)]

B3Results(b1Results, b2Results) ==
  [i \in 1..Len(b1Results) |->
     StepB3Result(b1Results[i], B2MapGet(b2Results, b1Results[i].No))]

B3Stage(results) ==
  [stage |-> "B3", results |-> results,
   summary |-> [total |-> Len(results),
                excellent |-> CountIf(results, [i \in 1..Len(results) |->
                                results[i].verdict = Excellent]),
                acceptable |-> CountIf(results, [i \in 1..Len(results) |->
                                 results[i].verdict = Acceptable]),
                unacceptable |-> CountIf(results, [i \in 1..Len(results) |->
                                   results[i].verdict = Unacceptable]),
                indeterminate |-> CountIf(results, [i \in 1..Len(results) |->
                                    results[i].verdict = Indeterminate])]]

executeStepB3(store) ==
  B3Stage(B3Results(executeStepB1(store).results, executeStepB2(store).results))

-----------------------------------------------------------------------------
(* utils/helpers.ts: getTrend, getMarketJudgment                           *)

TrendUp == "up"              \* '상승'
TrendDown == "down"          \* '하락'
TrendFlat == "flat"          \* '유지'
TrendNoData == "nodata"      \* '데이터없음'

JudgeGood == "good"          \* '양호'
JudgeNormal == "normal"      \* '적정'
JudgeCaution == "caution"    \* '주의'
JudgeUnknown == "unknown"    \* '판단불가'

\* the threshold itself counted as a move: >= and <= in place of > and <
Mut_getTrendInclusive(cur, prev) ==
  IF prev = 0 THEN "nodata"
  ELSE IF prev > 0
       THEN IF 50 * (cur - prev) >= prev THEN "up"
            ELSE IF 50 * (cur - prev) <= -prev THEN "down"
            ELSE "flat"
       ELSE IF 50 * (cur - prev) <= prev THEN "up"
            ELSE IF 50 * (cur - prev) >= -prev THEN "down"
            ELSE "flat"

\* change = (cur - prev) / prev against the threshold 0.02 = 1/50, both
\* sides multiplied by 50 * prev (the comparison turns for a negative prev)
getTrend(cur, prev) ==
  IF prev = 0 THEN TrendNoData
  ELSE IF prev > 0
       THEN IF 50 * (cur - prev) > prev THEN TrendUp
            ELSE IF 50 * (cur - prev) < -prev THEN TrendDown
            ELSE TrendFlat
       ELSE IF 50 * (cur - prev) < prev THEN TrendUp
            ELSE IF 50 * (cur - prev) > -prev THEN TrendDown
            ELSE TrendFlat

\* the nine entries of the matrix, key `${priceTrend}-${marketTrend}`
matrix ==
  [k \in {TrendFlat, TrendUp, TrendDown} \X {TrendFlat, TrendDown, TrendUp} |->
     IF k = <<TrendFlat, TrendFlat>> THEN JudgeNormal
     ELSE IF k = <<TrendFlat, TrendDown>> THEN JudgeCaution
     ELSE IF k = <<TrendFlat, TrendUp>> THEN JudgeGood
     ELSE IF k = <<TrendUp, TrendFlat>> THEN JudgeCaution
     ELSE IF k = <<TrendUp, TrendDown>> THEN JudgeCaution
     ELSE IF k = <<TrendUp, TrendUp>> THEN JudgeNormal
     ELSE IF k = <<TrendDown, TrendFlat>> THEN JudgeGood
     ELSE IF k = <<TrendDown, TrendDown>> THEN JudgeCaution
     ELSE JudgeGood]

\* a pair outside the matrix read as the normal verdict
Mut_JudgmentDefaultNormal(priceTrend, marketTrend) ==
  IF <<priceTrend, marketTrend>> \in DOMAIN matrix
  THEN matrix[<<priceTrend, marketTrend>>]
  ELSE JudgeNormal

\* matrix[key] || '판단불가'
getMarketJudgment(priceTrend, marketTrend) ==
  IF <<priceTrend, marketTrend>> \in DOMAIN matrix
  THEN matrix[<<priceTrend, marketTrend>>]
  ELSE JudgeUnknown

-----------------------------------------------------------------------------
(* services/stepC.ts.  A month label 'n월' of the LME sheet is the number   *)
(* n (any other label is 0), a year-month 'YYYY-MM' is the number          *)
(* 100 * YYYY + MM, and an order date is the number YYYYMMDD.              *)

TargetValveType == "VGBARR240AT"

\* Math.round(num / den) for a denominator of either sign
RoundQ(num, den) == IF den > 0 THEN Round(num, den) ELSE Round(-num, -den)

\* String.prototype.endsWith
EndsWith(s, suffix) ==
  Len(s) >= Len(suffix) /\ SubSeq(s, Len(s) - Len(suffix) + 1, Len(s)) = suffix

\* lines 45-47: the labels '1월'..'12월'
InMonthMap(month) == month \in 1..12

\* lines 51-60: Bronze환산 = Math.round(cu * 0.88 + sn * 0.12)
LMEDataRow(row) ==
  [month |-> row.month, ym |-> 202500 + row.month, cu |-> row.cu, sn |-> row.sn,
   bronze |-> Round(88 * row.cu + 12 * row.sn, 100)]

\* lines 42-62
getLMEData(lme) ==
  LET kept == Filter(lme, [i \in 1..Len(lme) |-> InMonthMap(lme[i].month)])
  IN [i \in 1..Len(kept) |-> LMEDataRow(kept[i])]

\* lines 69-77 and 253-261: the rows of the designated valve
IsTarget(row) ==
  /\ row.vtype = TargetValveType
  /\ ~Includes(ToUpperCase(row.desc), "LOCK")
  /\ EndsWith(Trim(row.desc), "TR")

\* lines 81-83: the year-month of an order date, 0 for an unreadable date
YearMonthOf(date) == date \div 100

\* lines 80-90: the target rows that have a year-month
WithMonth(performance) ==
  Filter(performance, [i \in 1..Len(performance) |->
           IsTarget(performance[i]) /\ YearMonthOf(performance[i].date) # 0])

\* lines 93-100: the keys `${ym}|${vendor}` in the order of first appearance
RECURSIVE GroupKeys(_, _, _)
GroupKeys(rows, i, keys) ==
  IF i > Len(rows) THEN keys
  ELSE IF \E k \in 1..Len(keys) :
             keys[k] = <<YearMonthOf(rows[i].date), rows[i].vendor>>
       THEN GroupKeys(rows, i + 1, keys)
       ELSE GroupKeys(rows, i + 1,
                      Append(keys, <<YearMonthOf(rows[i].date), rows[i].vendor>>))

GroupRows(rows, key) ==
  Filter(rows, [i \in 1..Len(rows) |->
           <<YearMonthOf(rows[i].date), rows[i].vendor>> = key])

\* line 108: the sum of 발주금액 / qty over the rows as a fraction num / den
RECURSIVE SumUnitPrice(_, _, _, _)
SumUnitPrice(rows, i, num, den) ==
  IF i > Len(rows) THEN <<num, den>>
  ELSE SumUnitPrice(rows, i + 1,
                    num * PosOrOne(rows[i].qty) + rows[i].amount * den,
                    den * PosOrOne(rows[i].qty))

RECURSIVE SumField(_, _, _)
SumField(rows, i, field) ==
  IF i > Len(rows) THEN 0 ELSE rows[i][field] + SumField(rows, i + 1, field)

\* the total amount over the total quantity of the rows
Mut_AvgPriceWeighted(rows, sum) ==
  RoundQ(SumField(rows, 1, "amount"), SumField(rows, 1, "qty"))

\* lines 108 and 113: Math.round(sum of unit prices / rows.length)
AvgPrice(rows, sum) == Round(sum[1], sum[2] * Len(rows))

\* lines 104-118: one (year-month, vendor) group
MonthlyRow(key, rows) ==
  [ym |-> key[1], vendor |-> key[2],
   avg |-> AvgPrice(rows, SumUnitPrice(rows, 1, 0, 1)),
   count |-> Len(rows),
   totalAmount |-> SumField(rows, 1, "amount"),
   totalQty |-> SumField(rows, 1, "qty")]

\* the collation order of the characters of a vendor name: the hyphen, the
\* digits, the capital letters
SortChars ==
  <<"-", "0", "1", "2", "3", "4", "5", "6", "7", "8", "9">> \o UpperChars

\* a.localeCompare(b) < 0 for two vendor names
RECURSIVE StrBefore(_, _)
StrBefore(a, b) ==
  IF Len(b) = 0 THEN FALSE
  ELSE IF Len(a) = 0 THEN TRUE
  ELSE IF CharAt(a, 1) = CharAt(b, 1)
       THEN StrBefore(SubSeq(a, 2, Len(a)), SubSeq(b, 2, Len(b)))
       ELSE IndexOf(SortChars, CharAt(a, 1)) < IndexOf(SortChars, CharAt(b, 1))

\* the comparator of lines 120-123
MonthlyBefore(a, b) ==
  IF a.ym # b.ym THEN a.ym < b.ym ELSE StrBefore(a.vendor, b.vendor)

\* lines 120-123: Array.prototype.sort (stable) by year-month, then vendor
RECURSIVE SortMonthly(_)
SortMonthly(rows) ==
  IF Len(rows) <= 1 THEN rows
  ELSE LET x == rows[Len(rows)]
           rest == SortMonthly(SubSeq(rows, 1, Len(rows) - 1))
           pos == Cardinality({i \in 1..Len(rest) : ~MonthlyBefore(x, rest[i])})
       IN SubSeq(rest, 1, pos) \o <<x>> \o SubSeq(rest, pos + 1, Len(rest))

MonthlyOf(withMonth, keys) ==
  SortMonthly([k \in 1..Len(keys) |-> MonthlyRow(keys[k], GroupRows(withMonth, keys[k]))])

\* lines 65-124
getMonthlyVendorPrices(performance) ==
  MonthlyOf(WithMonth(performance), GroupKeys(WithMonth(performance), 1, <<>>))

\* line 183: new Map(lmeData.map(d => [d.연월, d])), a later row of the same
\* month replacing an earlier one
LmeHas(lmeData, ym) == \E i \in 1..Len(lmeData) : lmeData[i].ym = ym

LmeBronze(lmeData, ym) ==
  lmeData[CHOOSE i \in 1..Len(lmeData) :
            /\ lmeData[i].ym = ym
            /\ \A j \in (i + 1)..Len(lmeData) : lmeData[j].ym # ym].bronze

\* lines 203-211: the index trend of a leg
MarketTrendOf(hasLme, prevBronze, currBronze) ==
  IF hasLme THEN getTrend(currBronze, prevBronze) ELSE TrendNoData

\* both changes present: the price change over the whole index change, not
\* over half of it
Mut_EstPLWholeIndex(c, p, hasMc, l0, l1) ==
  IF (p > 0 /\ c # p) /\ (hasMc /\ l1 # l0)
  THEN RoundQ(c * (c - p) * l0, p * (l1 - l0))
  ELSE IF ~(p > 0 /\ c # p) /\ (hasMc /\ l1 # l0)
  THEN Round(c * (l1 - l0), l0)
  ELSE IF ~(hasMc /\ l1 # l0) /\ (p > 0 /\ c # p)
  THEN Round(-(c * (c - p)), p)
  ELSE 0

\* a move of the index under an unchanged price booked with the opposite sign
Mut_EstPLIndexSign(c, p, hasMc, l0, l1) ==
  IF (p > 0 /\ c # p) /\ (hasMc /\ l1 # l0)
  THEN RoundQ(2 * c * (c - p) * l0, p * (l1 - l0))
  ELSE IF ~(p > 0 /\ c # p) /\ (hasMc /\ l1 # l0)
  THEN Round(c * (l0 - l1), l0)
  ELSE IF ~(hasMc /\ l1 # l0) /\ (p > 0 /\ c # p)
  THEN Round(-(c * (c - p)), p)
  ELSE 0

\* lines 218-231: the estimated gain or loss; pc = 100 * (c - p) / p when
\* p > 0 and 0 otherwise, mc = 100 * (l1 - l0) / l0 when the index is known
\* at both ends with l0 > 0 and 0 otherwise
EstPL(c, p, hasMc, l0, l1) ==
  IF (p > 0 /\ c # p) /\ (hasMc /\ l1 # l0)
  THEN RoundQ(2 * c * (c - p) * l0, p * (l1 - l0))
  ELSE IF ~(p > 0 /\ c # p) /\ (hasMc /\ l1 # l0)
  THEN Round(c * (l1 - l0), l0)
  ELSE IF ~(hasMc /\ l1 # l0) /\ (p > 0 /\ c # p)
  THEN Round(-(c * (c - p)), p)
  ELSE 0

\* Math.round(change * 10) / 10 of a percentage, in tenths of a percent
ChangeTenths(cur, prev) == IF prev > 0 THEN Round(1000 * (cur - prev), prev) ELSE 0

\* lines 195-244: the comparison of two consecutive months of a vendor
TrendLeg(prev, curr, hasLme, l0, l1) ==
  [vendor |-> curr.vendor, prevYm |-> prev.ym, currYm |-> curr.ym,
   prevPrice |-> prev.avg, currPrice |-> curr.avg,
   priceChange |-> ChangeTenths(curr.avg, prev.avg),
   priceTrend |-> getTrend(curr.avg, prev.avg),
   marketTrend |-> MarketTrendOf(hasLme, l0, l1),
   marketChange |-> IF hasLme THEN ChangeTenths(l1, l0) ELSE 0,
   estPL |-> EstPL(curr.avg, prev.avg, hasLme /\ l0 > 0, l0, l1),
   judgment |-> getMarketJudgment(getTrend(curr.avg, prev.avg),
                                  MarketTrendOf(hasLme, l0, l1))]

LegOf(prev, curr, lmeData) ==
  IF LmeHas(lmeData, prev.ym) /\ LmeHas(lmeData, curr.ym)
  THEN TrendLeg(prev, curr, TRUE,
                LmeBronze(lmeData, prev.ym), LmeBronze(lmeData, curr.ym))
  ELSE TrendLeg(prev, curr, FALSE, 0, 0)

\* line 187: the vendors in the order of their first monthly row
RECURSIVE VendorsOf(_, _, _)
VendorsOf(monthlyPrices, i, seen) ==
  IF i > Len(monthlyPrices) THEN seen
  ELSE IF \E k \in 1..Len(seen) : seen[k] = monthlyPrices[i].vendor
       THEN VendorsOf(monthlyPrices, i + 1, seen)
       ELSE VendorsOf(monthlyPrices, i + 1, Append(seen, monthlyPrices[i].vendor))

\* lines 190-192: the months of one vendor (monthlyPrices is in month order)
VendorData(monthlyPrices, vendor) ==
  Filter(monthlyPrices, [i \in 1..Len(monthlyPrices) |->
           monthlyPrices[i].vendor = vendor])

\* lines 194-245 for one vendor
VendorLegs(vendorData, lmeData) ==
  [i \in 1..(Len(vendorData) - 1) |->
     LegOf(vendorData[i], vendorData[i + 1], lmeData)]

\* lines 189-246
RECURSIVE AllLegs(_, _, _, _)
AllLegs(monthlyPrices, vendors, v, lmeData) ==
  IF v > Len(vendors) THEN <<>>
  ELSE VendorLegs(VendorData(monthlyPrices, vendors[v]), lmeData)
       \o AllLegs(monthlyPrices, vendors, v + 1, lmeData)

\* line 249: b.기간.localeCompare(a.기간), the period being
\* `${prev.발주연월} → ${curr.발주연월}`
PeriodAfter(a, b) ==
  IF a.prevYm # b.prevYm THEN a.prevYm > b.prevYm ELSE a.currYm > b.currYm

\* line 249: the stable sort, latest period first
RECURSIVE SortByPeriodDesc(_)
SortByPeriodDesc(rows) ==
  IF Len(rows) <= 1 THEN rows
  ELSE LET x == rows[Len(rows)]
           rest == SortByPeriodDesc(SubSeq(rows, 1, Len(rows) - 1))
           pos == Cardinality({i \in 1..Len(rest) : ~PeriodAfter(x, rest[i])})
       IN SubSeq(rest, 1, pos) \o <<x>> \o SubSeq(rest, pos + 1, Len(rest))

\* lines 266-278
StageC(lmeData, monthlyPrices, trendResults, targetCount) ==
  [stage |-> "C", lmeData |-> lmeData, monthlyPrices |-> monthlyPrices,
   trendResults |-> trendResults,
   summary |-> [targetCount |-> targetCount,
                good |-> CountIf(trendResults, [i \in 1..Len(trendResults) |->
                           trendResults[i].judgment = JudgeGood]),
                normal |-> CountIf(trendResults, [i \in 1..Len(trendResults) |->
                             trendResults[i].judgment = JudgeNormal]),
                caution |-> CountIf(trendResults, [i \in 1..Len(trendResults) |->
                              trendResults[i].judgment = JudgeCaution])]]

TrendResultsOf(monthlyPrices, lmeData) ==
  SortByPeriodDesc(AllLegs(monthlyPrices, VendorsOf(monthlyPrices, 1, <<>>),
                           1, lmeData))

StageCOf(lmeData, monthlyPrices, performance) ==
  StageC(lmeData, monthlyPrices, TrendResultsOf(monthlyPrices, lmeData),
         Len(Filter(performance, [i \in 1..Len(performance) |->
                      IsTarget(performance[i])])))

\* lines 166-279
executeStepC(store) ==
  StageCOf(getLMEData(getLME(store)),
           getMonthlyVendorPrices(getPerformance(store)),
           getPerformance(store))

-----------------------------------------------------------------------------
(* services/aiService.ts and GET /api/step/b3.  A comment is the record of *)
(* its kind of text and, for the rule-based text of an unacceptable quote, *)
(* the ratio it prints in tenths (-1 for '?').  The reply of the language  *)
(* model is an outcome the environment chooses.                            *)

LlmText == "llm"                 \* data.content[0].text
DemoText == "demo"               \* '[API키 미설정 - 데모 모드] ...'
ParseFailedText == "parseFailed" \* '[응답 파싱 실패]'
CallFailedText == "callFailed"   \* `[API 호출 실패: ${errMsg}]`

\* the reply carries a text, carries none, or fetch / json() throws
Outcomes == {"text", "empty", "throw"}

Comment(kind, ratio) == [kind |-> kind, ratio |-> ratio]

\* lines 10-37
callLLM(hasKey, outcome) ==
  IF ~hasKey THEN Comment(DemoText, 0)
  ELSE IF outcome = "text" THEN Comment(LlmText, 0)
  ELSE IF outcome = "empty" THEN Comment(ParseFailedText, 0)
  ELSE Comment(CallFailedText, 0)

\* lines 40-60: the prompt is built from the row, the text is the model's
generateItemComment(row, hasKey, outcome) == callLLM(hasKey, outcome)

\* Map.prototype.set
MapSet(m, k, v) == [x \in DOMAIN m \cup {k} |-> IF x = k THEN v ELSE m[x]]

\* index.ts 484-498; (견적가 / basePrice).toFixed(1) in tenths
generateFallbackComment(row) ==
  IF row.verdict = Unacceptable
  THEN Comment("fallbackUnacceptable",
               IF (IF row.recent > 0 THEN row.recent ELSE row.contract) > 0
               THEN Round(10 * row.quote,
                          IF row.recent > 0 THEN row.recent ELSE row.contract)
               ELSE -1)
  ELSE IF row.verdict = Excellent THEN Comment("fallbackExcellent", 0)
  ELSE IF row.verdict = Acceptable THEN Comment("fallbackAcceptable", 0)
  ELSE Comment("fallbackNoData", 0)

SampleSize == 3

categories == <<Excellent, Acceptable, Unacceptable, Indeterminate>>

\* index.ts 451-457: the first three results of each verdict
RECURSIVE SamplesOf(_, _)
SamplesOf(results, c) ==
  IF c > Len(categories) THEN <<>>
  ELSE Take(Filter(results, [i \in 1..Len(results) |->
                     results[i].verdict = categories[c]]), SampleSize)
       \o SamplesOf(results, c + 1)

\* index.ts 462-465: comments.get(row.No) || generateFallbackComment(row);
\* every text callLLM returns is non-empty
ResultsWithAI(results, comments) ==
  [i \in 1..Len(results) |->
     [row |-> results[i],
      comment |-> IF results[i].No \in DOMAIN comments
                  THEN comments[results[i].No]
                  ELSE generateFallbackComment(results[i])]]

\* index.ts 467-481
B3Response(result, samples, comments) ==
  [stage |-> "B3AI", summary |-> result.summary,
   data |-> ResultsWithAI(result.results, comments),
   aiSampleCount |-> Len(samples),
   fallbackCount |-> Len(result.results) - Len(samples)]

\* what the loop does that its surroundings see: the call of
\* generateItemComment for the row numbered no and its return, a call of
\* onProgress(k, n, ...), and the 300 ms timer firing
Event(ev, no, k, n) == [ev |-> ev, no |-> no, k |-> k, n |-> n]

\* after every row
Mut_NeedsDelayAlways(i, n) == TRUE

\* aiService.ts 80: i < rows.length - 1, with i counting from 0
NeedsDelay(i, n) == i < n - 1

\* aiService.ts 75-77: if (onProgress) onProgress(i + 1, rows.length, ...)
Reported(events, onProgress, k, n) ==
  IF onProgress THEN Append(events, Event("progress", 0, k, n)) ELSE events

\* the state of generateBatchComments(rows) before its first call; the
\* handler of /api/step/b3 passes no onProgress
BatchStart(idle, result, rows) ==
  [fn |-> "generateBatchComments", apiKey |-> idle.apiKey, result |-> result,
   rows |-> rows, i |-> 0, comments |-> <<>>, outcomes |-> <<>>,
   waiting |-> FALSE, pending |-> FALSE, onProgress |-> FALSE,
   events |-> <<>>]

-----------------------------------------------------------------------------
(* index.ts: start-up and the stage handlers, each "await loadAllData()"   *)
(* followed by the stage                                                   *)

LoadAllData ==
  /\ cachedData' = LoadedData
  /\ UNCHANGED <<files, response, call>>

StepA1 ==
  \E store \in {LoadedData} :
    /\ cachedData' = store
    /\ response' = executeStepA1(store)
    /\ UNCHANGED <<files, call>>

StepB1 ==
  \E store \in {LoadedData} :
    /\ cachedData' = store
    /\ response' = executeStepB1(store)
    /\ UNCHANGED <<files, call>>

StepB2 ==
  \E store \in {LoadedData} :
    /\ cachedData' = store
    /\ response' = executeStepB2(store)
    /\ UNCHANGED <<files, call>>

StepB3 ==
  \E store \in {LoadedData} :
    /\ cachedData' = store
    /\ response' = executeStepB3(store)
    /\ UNCHANGED <<files, call>>

StepA2 ==
  \E store \in {LoadedData} :
    /\ cachedData' = store
    /\ response' = executeStepA2(store)
    /\ UNCHANGED <<files, call>>

StepC ==
  \E store \in {LoadedData} :
    /\ cachedData' = store
    /\ response' = executeStepC(store)
    /\ UNCHANGED <<files, call>>

\* GET /api/step/1: the PR items of the loaded store
Step1 ==
  \E store \in {LoadedData} :
    /\ cachedData' = store
    /\ response' = [stage |-> "1", prItems |-> generatePRItems(store)]
    /\ UNCHANGED <<files, call>>

\* GET /api/step/b1/analysis?no=: the analysis of one quote or, without a
\* number, of all
B1Analysis ==
  \E store \in {LoadedData}, itemNo \in 0..2 :
    /\ cachedData' = store
    /\ response' = analyzePriceDifference(store, itemNo)
    /\ UNCHANGED <<files, call>>

\* GET /api/step/b3 up to the call of generateBatchComments(samples)
B3Begin ==
  /\ call.fn = "none"
  /\ \E store \in {LoadedData} :
       /\ cachedData' = store
       /\ call' = BatchStart(call, executeStepB3(store),
                             SamplesOf(executeStepB3(store).results, 1))
  /\ UNCHANGED <<files, response>>

\* generateBatchComments(rows, onProgress) called on the samples of the
\* loaded store, with or without a progress callback
CallBatch ==
  /\ call.fn = "none"
  /\ \E store \in {LoadedData}, onProgress \in BOOLEAN :
       /\ cachedData' = store
       /\ call' = [BatchStart(call, executeStepB3(store),
                              SamplesOf(executeStepB3(store).results, 1))
                     EXCEPT !.onProgress = onProgress]
  /\ UNCHANGED <<files, response>>

\* aiService.ts 70-72: the loop condition holds and generateItemComment is
\* called for rows[i]; the loop is suspended at the await
ItemCall ==
  /\ call.fn = "generateBatchComments"
  /\ call.i < Len(call.rows)
  /\ ~call.waiting
  /\ ~call.pending
  /\ call' = [call EXCEPT
                !.pending = TRUE,
                !.events = Append(@, Event("call", call.rows[call.i + 1].No,
                                           0, 0))]
  /\ UNCHANGED <<files, cachedData, response>>

\* aiService.ts 72-82: the call returns, the comment is stored, progress is
\* reported and, unless the row is the last one, the delay is awaited
ItemComment ==
  /\ call.fn = "generateBatchComments"
  /\ call.pending
  /\ \E outcome \in (IF call.apiKey THEN Outcomes ELSE {"none"}) :
       call' = [call EXCEPT
                  !.i = @ + 1,
                  !.pending = FALSE,
                  !.comments = MapSet(@, call.rows[call.i + 1].No,
                                 generateItemComment(call.rows[call.i + 1],
                                                     call.apiKey, outcome)),
                  !.outcomes = Append(@, outcome),
                  !.events = Reported(
                               Append(@, Event("return",
                                               call.rows[call.i + 1].No, 0, 0)),
                               call.onProgress, call.i + 1, Len(call.rows)),
                  !.waiting = NeedsDelay(call.i, Len(call.rows))]
  /\ UNCHANGED <<files, cachedData, response>>

\* aiService.ts 80-82: the 300 ms timer fires
Delay ==
  /\ call.fn = "generateBatchComments"
  /\ call.waiting
  /\ call' = [call EXCEPT !.waiting = FALSE,
                          !.events = Append(@, Event("delay", 0, 0, 0))]
  /\ UNCHANGED <<files, cachedData, response>>

\* aiService.ts 70 and 84: the loop condition fails and the comments are
\* returned
BatchReturn ==
  /\ call.fn = "generateBatchComments"
  /\ call.i >= Len(call.rows)
  /\ ~call.waiting
  /\ ~call.pending
  /\ call' = [call EXCEPT !.fn = "returned"]
  /\ UNCHANGED <<files, cachedData, response>>

\* aiService.ts 84 and index.ts 462-481: the batch returns, the comments are
\* merged into the results and the response is sent
B3Respond ==
  /\ call.fn = "generateBatchComments"
  /\ call.i >= Len(call.rows)
  /\ ~call.waiting
  /\ ~call.pending
  /\ response' = B3Response(call.result, call.rows, call.comments)
  /\ call' = [call EXCEPT !.fn = "done"]
  /\ UNCHANGED <<files, cachedData>>

Next == LoadAllData \/ StepA1 \/ StepB1 \/ StepB2 \/ StepB3

-----------------------------------------------------------------------------
(* Applications of parseOptionsFromDesc to descriptions built from a small *)
(* token vocabulary, with single or double blanks and optional padding.    *)

MaxDescTokens == 4

DescVocab == {"GLBE", "TR", "T", "LR", "LOCK"}

TokenSeqs(S, n) == UNION {[1..k -> S] : k \in 0..n}

InitParse ==
  /\ files = NoFiles
  /\ cachedData = NoData
  /\ response = NoResponse
  /\ \E toks \in TokenSeqs(DescVocab, MaxDescTokens), sep \in {" ", "  "},
        pad \in {"", " "} :
       call = [fn |-> "parseOptionsFromDesc", toks |-> toks,
               arg |-> pad \o Join(toks, sep) \o pad, done |-> FALSE, out |-> <<>>]

ApplyParse ==
  /\ call.fn = "parseOptionsFromDesc"
  /\ ~call.done
  /\ call' = [call EXCEPT !.done = TRUE, !.out = parseOptionsFromDesc(call.arg)]
  /\ UNCHANGED <<files, cachedData, response>>

NextParse == ApplyParse

SpecParse == InitParse /\ [][NextParse]_vars

\* the highest-priority marker that occurs among the tokens (0: none)
ClaimedMarker(toks) ==
  IF \E m \in 1..Len(markers) : IndexOf(toks, markers[m]) # 0
  THEN CHOOSE m \in 1..Len(markers) :
         /\ IndexOf(toks, markers[m]) # 0
         /\ \A k \in 1..(m - 1) : IndexOf(toks, markers[k]) = 0
  ELSE 0

\* C7: parseOptionsFromDesc returns the tokens after the first occurrence of
\* the highest-priority marker (TR, then T, then LR) present among the
\* whitespace-separated tokens, so a trailing TR gives the empty list and no
\* split at T or LR; without any marker token it returns the empty list.
C7_MarkerPriority ==
  (call.fn = "parseOptionsFromDesc" /\ call.done) =>
    LET m == ClaimedMarker(call.toks)
    IN IF m = 0 THEN call.out = <<>>
       ELSE call.out = SubSeq(call.toks, IndexOf(call.toks, markers[m]) + 1,
                              Len(call.toks))

-----------------------------------------------------------------------------
(* Applications of calcOptionPrice to a price row, an option-token list,   *)
(* a paint-code pair and a detail spec.                                    *)

MaxOptTokens == 2

OptCols == {"NP", "OP", "IP", "LOCK", "IND", "LSW", "EXT", "D13", "D14", "D16"}

ZeroOptRow == [c \in OptCols |-> 0]

FullOptRow ==
  [NP |-> 40, OP |-> 300, IP |-> 200, LOCK |-> 5000, IND |-> 700, LSW |-> 900,
   EXT |-> 1100, D13 |-> 1300, D14 |-> 1400, D16 |-> 1600]

CoatOptRow == [ZeroOptRow EXCEPT !.OP = 300, !.IP = 200, !.D16 = 1600]

OptRows == {ZeroOptRow, FullOptRow, CoatOptRow}

OptVocab == {"I-T", "i/o-t", "I/O-P", "O-P", "LOCK", "EXT", "S-EXT", "L/SW",
             "1-L/S", "RUB-C", "GLBE"}

PaintPairs == {<<"", "">>, <<"E1", "N0">>, <<"none", "E1">>, <<"e2", "E1">>}

DetailSpecs == {"", "DISC:SUS316", "sus304/SCS16", "SCS14"}

InitOpt ==
  /\ files = NoFiles
  /\ cachedData = NoData
  /\ response = NoResponse
  /\ \E row \in OptRows, opts \in TokenSeqs(OptVocab, MaxOptTokens),
        pp \in PaintPairs, ds \in DetailSpecs :
       call = [fn |-> "calcOptionPrice", priceRow |-> row, descOptions |-> opts,
               intPaint |-> pp[1], extPaint |-> pp[2], detailSpec |-> ds,
               done |-> FALSE, out |-> [total |-> 0, detail |-> <<>>]]

ApplyOpt ==
  /\ call.fn = "calcOptionPrice"
  /\ ~call.done
  /\ call' = [call EXCEPT !.done = TRUE,
                !.out = calcOptionPrice(call.priceRow, call.descOptions,
                                        call.intPaint, call.extPaint,
                                        call.detailSpec)]
  /\ UNCHANGED <<files, cachedData, response>>

NextOpt == ApplyOpt

SpecOpt == InitOpt /\ [][NextOpt]_vars

OptDone == call.fn = "calcOptionPrice" /\ call.done

\* the part of the returned total that is due to price column col: the total
\* minus the total of the same call on the row with that column set to 0
Contribution(col) ==
  call.out.total -
    calcOptionPrice([call.priceRow EXCEPT ![col] = 0], call.descOptions,
                    call.intPaint, call.extPaint, call.detailSpec).total

\* the columns of the semantic slots: nameplate, outer coating, inner coating,
\* disc material
SlotCols == {"NP", "OP", "IP", "D13", "D14", "D16"}

\* C8: the total returned by calcOptionPrice includes the nameplate price,
\* the outer-coating price, the inner-coating price and each disc-material
\* price at most once, whatever the tokens, paint codes and detail spec.
C8_NoDoubleCount ==
  OptDone => \A col \in SlotCols : Contribution(col) <= call.priceRow[col]

\* the price columns of the token table that a token of the call names
NamedCols ==
  {kwMap[Trim(ToUpperCase(call.descOptions[i]))] :
     i \in {j \in 1..Len(call.descOptions) :
              Trim(ToUpperCase(call.descOptions[j])) \in DOMAIN kwMap}}

\* C17: a price column of the token table (LOCK, IND, L/SW, EXT) that a token
\* of the list names adds its price to the total exactly once, also when the
\* token is repeated or several synonyms of the column are in the list
C17_TableFieldOnce ==
  OptDone => \A col \in NamedCols : Contribution(col) = call.priceRow[col]

\* C9: on a price row whose option unit prices are all zero calcOptionPrice
\* returns total 0 and an empty breakdown for every token list, paint-code
\* pair and detail spec.
C9_ZeroRowZeroTotal ==
  (OptDone /\ \A c \in OptCols : call.priceRow[c] = 0) =>
    (call.out.total = 0 /\ DOMAIN call.out.detail = {})

\* a zero row priced with option tokens, a real paint code and a disc spec
C9_Witness ==
  /\ OptDone
  /\ \A c \in OptCols : call.priceRow[c] = 0
  /\ Len(call.descOptions) = 2
  /\ call.extPaint = "E1"
  /\ call.detailSpec # ""

-----------------------------------------------------------------------------
(* The pipeline on data files that exercise the match tiers: a price table *)
(* of up to MaxPriceRows rows, one order row and one vendor quote.         *)

MaxPriceRows == 2

PriceRow(vtype, prof) == [prof EXCEPT !.vtype = vtype]

\* body price 100 for 2 pieces, nameplate only
ProfA ==
  [vtype |-> "", body2 |-> 100, qty |-> 2, vendor |-> "KV", bodyUnit |-> 10,
   NP |-> 40, OP |-> 0, IP |-> 0, LOCK |-> 0, IND |-> 0, LSW |-> 0, EXT |-> 0,
   D13 |-> 0, D14 |-> 0, D16 |-> 0]

\* body price 100 for 3 pieces, every option priced
ProfB ==
  [vtype |-> "", body2 |-> 100, qty |-> 3, vendor |-> "SV", bodyUnit |-> 7,
   NP |-> 0, OP |-> 300, IP |-> 200, LOCK |-> 5000, IND |-> 700, LSW |-> 900,
   EXT |-> 1100, D13 |-> 1300, D14 |-> 1400, D16 |-> 1600]

\* a reference quantity that is missing (0) or negative in the file
ProfC(q) == [ProfA EXCEPT !.body2 = 90, !.qty = q, !.vendor = "HV", !.NP = 15]

PriceTypesM == {"VG1", " VG1A", ""}

PriceRowsM ==
  {PriceRow(t, prof) : t \in PriceTypesM, prof \in {ProfA, ProfB}}
  \cup {PriceRow("VG1", ProfC(0)), PriceRow(" VG1A", ProfC(-2))}

PerfRow(matNo, vtype, desc, date, amount, qty) ==
  [matNo |-> matNo, desc |-> desc, vendor |-> "V-" \o matNo, date |-> date,
   amount |-> amount, qty |-> qty, vtype |-> vtype]

\* a quote without a breakdown into components
NoParts == [body |-> 0, NP |-> 0, ext |-> 0, int |-> 0, LOCK |-> 0, rub |-> 0]

QuoteRow(no, matNo, desc, qty, quote) ==
  [No |-> no, matNo |-> matNo, desc |-> desc, qty |-> qty, weight |-> 100,
   quote |-> quote, intPaint |-> "", extPaint |-> "E1", spec |-> "",
   parts |-> NoParts]

DescLock == "GL TR LOCK"

\* the order row has a full type code or a one-letter one, and a requested
\* quantity that is positive or not; the quote is for the ordered material
\* or for one that was never ordered
InitMatch ==
  /\ cachedData = NoData
  /\ response = NoResponse
  /\ call = NoCall
  /\ \E price \in TokenSeqs(PriceRowsM, MaxPriceRows),
        vtype \in {"VG1A", "V"}, perfQty \in {4, -3}, qMat \in {"M1", "M9"} :
       files = [price |-> price,
                perf |-> <<PerfRow("M1", vtype, DescLock, 1, 1000, perfQty)>>,
                quotes |-> <<QuoteRow(1, qMat, DescLock, 4, 1000)>>,
                lme |-> <<>>]

SpecMatch == InitMatch /\ [][Next]_vars

\* the rows of the loaded price table whose type code is the key
KeyRows(key) ==
  {j \in 1..Len(cachedData.priceTable) : cachedData.priceTable[j].vtype = key}

\* the rows a Stage A1 target can fall back on: those with its type prefix
A1TypeRows(vtype) ==
  {j \in 1..Len(cachedData.priceTable) :
     /\ extractTypePrefix(cachedData.priceTable[j].vtype) # ""
     /\ extractTypePrefix(cachedData.priceTable[j].vtype) = extractTypePrefix(vtype)}

\* the rows a Stage B1 target can fall back on: those with its full type code
B1TypeRows(vtype) == IF vtype = "" THEN {} ELSE KeyRows(vtype)

TypeRows(stage, vtype) == IF stage = "A1" THEN A1TypeRows(vtype) ELSE B1TypeRows(vtype)

\* the key of a target: its type code without the last character
TargetKey(stage, vtype) ==
  IF stage = "A1" THEN SubSeq(vtype, 1, Len(vtype) - 1) ELSE VtypeKeyOf(vtype)

MatchDone == cachedData.loaded /\ response.stage \in {"A1", "B1"}

\* C4: in Stage A1 and Stage B1 a target has tier typeAndSize exactly when
\* the type+size index has rows for its key, tier typeOnly exactly when it
\* has none and the type-only index has rows, and is unmatched exactly when
\* both have none.
C4_TierFallback ==
  MatchDone =>
    \A i \in 1..Len(response.results) :
      LET r == response.results[i]
          hasSize == KeyRows(TargetKey(response.stage, r.vtype)) # {}
          hasType == TypeRows(response.stage, r.vtype) # {}
      IN /\ (r.tier = TierTypeSize) <=> hasSize
         /\ (r.tier = TierTypeOnly) <=> (~hasSize /\ hasType)
         /\ (r.status = Unmatched) <=> (~hasSize /\ ~hasType)
         /\ (r.status = Matched) <=> (hasSize \/ hasType)

\* a target of each stage that fell back to the type-only index
C4_Witness ==
  /\ MatchDone
  /\ \E i \in 1..Len(response.results) :
       /\ response.results[i].tier = TierTypeOnly
       /\ KeyRows(TargetKey(response.stage, response.results[i].vtype)) = {}
       /\ Len(cachedData.priceTable) = MaxPriceRows

\* the rows of the bucket a matched result was priced from
BucketOf(stage, r) ==
  IF r.tier = TierTypeSize THEN KeyRows(TargetKey(stage, r.vtype))
  ELSE TypeRows(stage, r.vtype)

\* the first of them in the order of the price table
FirstInTable(rows) == cachedData.priceTable[CHOOSE j \in rows : \A k \in rows : j <= k]

\* C5: a matched target of Stage A1 or B1 is priced from the first row, in
\* the order of the price table, of the rows that share the matched key, and
\* the stage run again over the loaded store returns the same results.
C5_FirstRowInTableOrder ==
  MatchDone =>
    /\ \A i \in 1..Len(response.results) :
         LET r == response.results[i]
             pt == FirstInTable(BucketOf(response.stage, r))
         IN r.status = Matched =>
              IF response.stage = "A1"
              THEN /\ r.vendor = pt.vendor
                   /\ r.body = Round(pt.body2, IF pt.qty > 0 THEN pt.qty ELSE 1)
              ELSE /\ r.optNP = pt.NP * r.qty
                   /\ r.optOP = pt.OP * r.qty
                   /\ r.body = pt.bodyUnit * cachedData.vendorQuotes[i].weight * r.qty
    /\ response.stage = "A1" => executeStepA1(cachedData) = response
    /\ response.stage = "B1" => executeStepB1(cachedData) = response

\* a matched target whose bucket holds two rows of different vendors
C5_Witness ==
  /\ MatchDone
  /\ \E i \in 1..Len(response.results) :
       LET rows == BucketOf(response.stage, response.results[i])
       IN /\ response.results[i].status = Matched
          /\ Cardinality(rows) = 2
          /\ \E j, k \in rows :
               cachedData.priceTable[j].vendor # cachedData.priceTable[k].vendor

\* C6: a target whose type code has fewer than 2 characters, a quote joined
\* to no type code included, is never matched in Stage A1 or Stage B1,
\* whatever the price table holds.
C6_ShortCodeNeverMatches ==
  MatchDone =>
    \A i \in 1..Len(response.results) :
      Len(response.results[i].vtype) < 2 => response.results[i].status = Unmatched

\* the requested quantity of the order row a Stage A1 result stands for
RequestedQty(r) ==
  LET k == CHOOSE k \in 1..Len(files.perf) : Trim(files.perf[k].matNo) = r.matNo
  IN IF files.perf[k].qty > 0 THEN files.perf[k].qty ELSE 1

ReferenceQty(pt) == IF pt.qty > 0 THEN pt.qty ELSE 1

\* C10 as amended: for every matched Stage A1 item the recommended total
\* is (bodyPrice / referenceQuantity + optionTotal) x requestedQuantity
\* rounded to the nearest integer, a quantity that is not positive counting
\* as 1.
C10_TotalRounded ==
  (cachedData.loaded /\ response.stage = "A1") =>
    \A i \in 1..Len(response.results) :
      LET r == response.results[i]
          pt == FirstInTable(BucketOf("A1", r))
          refQty == ReferenceQty(pt)
      IN r.status = Matched =>
           /\ r.qty = RequestedQty(r)
           /\ r.total = Round((pt.body2 + r.opt * refQty) * RequestedQty(r), refQty)

\* C10 as stated: the recommended total is exactly
\* (bodyPrice / referenceQuantity + optionTotal) x requestedQuantity.
C10_TotalExact ==
  (cachedData.loaded /\ response.stage = "A1") =>
    \A i \in 1..Len(response.results) :
      LET r == response.results[i]
          pt == FirstInTable(BucketOf("A1", r))
          refQty == ReferenceQty(pt)
      IN r.status = Matched =>
           r.total * refQty = (pt.body2 + r.opt * refQty) * RequestedQty(r)

\* body price 100 for 2 pieces and nameplate 40 at 4 requested pieces: 360
C10_Witness ==
  /\ cachedData.loaded /\ response.stage = "A1"
  /\ \E i \in 1..Len(response.results) :
       LET r == response.results[i]
           pt == FirstInTable(BucketOf("A1", r))
       IN /\ r.status = Matched
          /\ pt.body2 = 100 /\ pt.qty = 2 /\ r.opt = 40 /\ r.qty = 4
          /\ r.total = 360

-----------------------------------------------------------------------------
(* The pipeline on data files that exercise the fairness verdicts: up to   *)
(* MaxQuotes vendor quotes, with or without a price row and an order row   *)
(* for the quoted material.                                                *)

MaxQuotes == 2

DescKw == "GL 5A 1K TR"
DescSpare == "SPARE"

\* quotes for the ordered material M1 and for the never-ordered M9; two of
\* the rows of the sheet may carry one No
QuoteKinds == {<<1, "M1", DescKw>>, <<2, "M1", DescKw>>, <<1, "M9", DescSpare>>}

QuoteAmounts == {0, 900, 1000}

QuoteRowsF == {QuoteRow(k[1], k[2], k[3], 1, q) : k \in QuoteKinds, q \in QuoteAmounts}

PerfFilesF ==
  {<<>>, <<PerfRow("M1", "VG1A", DescKw, 1, 1000, 1)>>,
   <<PerfRow("M1", "VG1A", DescKw, 1, 950, 1)>>}

PriceFilesF == {<<>>, <<PriceRow("VG1", ProfA)>>}

InitFair ==
  /\ cachedData = NoData
  /\ response = NoResponse
  /\ call = NoCall
  /\ \E price \in PriceFilesF, perf \in PerfFilesF,
        quotes \in TokenSeqs(QuoteRowsF, MaxQuotes) \ {<<>>} :
       files = [price |-> price, perf |-> perf, quotes |-> quotes, lme |-> <<>>]

SpecFair == InitFair /\ [][Next]_vars

FairDone == cachedData.loaded /\ response.stage = "B3"

\* C1: executeStepB3 gives every vendor quote one result with one verdict,
\* the one of the first branch that holds of: Q <= 0 indeterminate; T > 0
\* and T >= Q excellent; (R > 0 and R >= Q) or (C > 0 and C >= Q)
\* acceptable; R > 0 or C > 0 unacceptable; otherwise indeterminate.
C1_VerdictChain ==
  FairDone =>
    /\ Len(response.results) = Len(files.quotes)
    /\ \A i \in 1..Len(response.results) :
         LET r == response.results[i]
             Q == r.quote
             T == r.target
             R == r.recent
             C == r.contract
             b1 == Q <= 0
             b2 == T > 0 /\ T >= Q
             b3 == (R > 0 /\ R >= Q) \/ (C > 0 /\ C >= Q)
             b4 == R > 0 \/ C > 0
         IN /\ r.quote = files.quotes[i].quote
            /\ r.verdict \in {Excellent, Acceptable, Unacceptable, Indeterminate}
            /\ (r.verdict = Excellent) <=> (~b1 /\ b2)
            /\ (r.verdict = Acceptable) <=> (~b1 /\ ~b2 /\ b3)
            /\ (r.verdict = Unacceptable) <=> (~b1 /\ ~b2 /\ ~b3 /\ b4)
            /\ (r.verdict = Indeterminate) <=> (b1 \/ (~b2 /\ ~b3 /\ ~b4))

\* Q = 1000 with R = 1000 and T = 900 is acceptable
C1_Witness ==
  /\ FairDone
  /\ \E i \in 1..Len(response.results) :
       /\ response.results[i].quote = 1000
       /\ response.results[i].recent = 1000
       /\ response.results[i].target = 900
       /\ response.results[i].verdict = Acceptable

\* C3: a vendor quote that Stage B1 leaves unmatched and Stage B2 leaves
\* unmapped still has a result in Stage B3, and its verdict is indeterminate.
C3_NoMatchIndeterminate ==
  FairDone =>
    /\ Len(response.results) = Len(cachedData.vendorQuotes)
    /\ \A i \in 1..Len(response.results) :
         (/\ executeStepB1(cachedData).results[i].status = Unmatched
          /\ executeStepB2(cachedData).results[i].tier = TierUnmapped)
         => response.results[i].verdict = Indeterminate

-----------------------------------------------------------------------------
(* The verdict chain of executeStepB3 as a function of Q, T, R and C       *)

MaxAmount == 4

InitVerdict ==
  /\ files = NoFiles
  /\ cachedData = NoData
  /\ response = NoResponse
  /\ \E q \in -1..MaxAmount, t \in -1..MaxAmount, r \in -1..MaxAmount,
        c \in -1..MaxAmount :
       call = [fn |-> "fairness", est |-> q, r90 |-> t, r100 |-> r, cont |-> c,
               done |-> FALSE, out |-> ""]

ApplyFairness ==
  /\ call.fn = "fairness"
  /\ ~call.done
  /\ call' = [call EXCEPT !.done = TRUE,
                !.out = Fairness(call.est, call.r90, call.r100, call.cont)]
  /\ UNCHANGED <<files, cachedData, response>>

NextVerdict == ApplyFairness

SpecVerdict == InitVerdict /\ [][NextVerdict]_vars

VerdictDone == call.fn = "fairness" /\ call.done

\* the place of a verdict in the order excellent, acceptable, unacceptable;
\* 0 for indeterminate, which has no place in it
Rank(v) ==
  CASE v = Excellent -> 1
    [] v = Acceptable -> 2
    [] v = Unacceptable -> 3
    [] OTHER -> 0

\* C2: for fixed T, R and C and 0 <= Q1 <= Q2, the verdict of Q2 is never
\* earlier than the verdict of Q1 in the order excellent, acceptable,
\* unacceptable.
C2_MonotonicInQ ==
  (VerdictDone /\ call.est >= 0) =>
    \A q2 \in call.est..(MaxAmount + 1) :
      LET v2 == Fairness(q2, call.r90, call.r100, call.cont)
      IN (Rank(call.out) > 0 /\ Rank(v2) > 0) => Rank(v2) >= Rank(call.out)

\* a quote that is excellent and becomes unacceptable when raised
C2_Witness ==
  /\ VerdictDone /\ call.est >= 0
  /\ call.out = Excellent
  /\ \E q2 \in call.est..(MaxAmount + 1) :
       Fairness(q2, call.r90, call.r100, call.cont) = Unacceptable


-----------------------------------------------------------------------------
(* The history stages A2 and B2 on an order history of up to MaxPerfRows   *)
(* rows: two materials of one type key with equal or different             *)
(* descriptions and dates, a row of another key, and one vendor quote.     *)

MaxPerfRows == 3

DescA == "GL 5A 1K"
DescB == "GL 5A 1K TR"

\* the amount tells the rows apart: 1000 per date, 100 per material
HistRow(matNo, vtype, desc, date) ==
  PerfRow(matNo, vtype, desc, date,
          1000 * date + (IF matNo = "M1" THEN 100 ELSE 200)
          + (IF desc = DescA THEN 10 ELSE 20), 1)

PerfRowsH ==
  {HistRow("M1", "VG1A", DescA, 1), HistRow("M1", "VG1A", DescA, 2),
   HistRow("M1", "VG1A", DescB, 1),
   HistRow("M2", "VG1B", DescA, 1), HistRow("M2", "VG1B", DescA, 2),
   HistRow("M2", "VG1B", DescB, 2), HistRow("M2", "XK2A", DescA, 2)}

QuotesH == {<<QuoteRow(1, "M1", DescA, 2, 1000)>>, <<QuoteRow(1, "M2", DescB, 2, 1000)>>}

InitHist ==
  /\ cachedData = NoData
  /\ response = NoResponse
  /\ call = NoCall
  /\ \E perf \in TokenSeqs(PerfRowsH, MaxPerfRows), quotes \in QuotesH :
       files = [price |-> <<>>, perf |-> perf, quotes |-> quotes, lme |-> <<>>]

NextHist == LoadAllData \/ StepA2 \/ StepB2

SpecHist == InitHist /\ [][NextHist]_vars

HistDone == cachedData.loaded /\ response.stage \in {"A2", "B2"}

\* the type key of target i of the stage on display
HistKey(i) ==
  IF response.stage = "A2" THEN VtypeKeyOf(response.results[i].vtype)
  ELSE cachedData.vendorQuotes[i].vkey

\* the pool of target i: the order rows of its key, in Stage A2 without the
\* rows of its own material
HistPool(i) ==
  {k \in 1..Len(cachedData.performance) :
     /\ cachedData.performance[k].vkey = HistKey(i)
     /\ response.stage = "A2" =>
          cachedData.performance[k].matNo # response.results[i].matNo}

\* the pool rows with the target's trimmed description
HistExact(i) ==
  {k \in HistPool(i) :
     Trim(cachedData.performance[k].desc) = Trim(response.results[i].desc)}

\* the rows the result of target i may be priced from
HistCandidates(i) == IF HistExact(i) # {} THEN HistExact(i) ELSE HistPool(i)

\* result r carries the vendor, date and price of order row k
PricedFromRow(r, row) ==
  /\ r.vendor = row.vendor
  /\ r.date = row.date
  /\ r.recent = Round(row.amount * r.qty, IF row.qty > 0 THEN row.qty ELSE 1)

SameKeyRows(i) ==
  {k \in 1..Len(cachedData.performance) :
     cachedData.performance[k].vkey = HistKey(i)}

\* the rows result i can have been priced from: those with its vendor (who
\* is the vendor of one material only), order date and price
SelectedRows(i) ==
  {k \in 1..Len(cachedData.performance) :
     PricedFromRow(response.results[i], cachedData.performance[k])}

\* C19: a mapped Stage A2 result is priced from a row that has the item's
\* type key and another material id, and an item whose rows of the same key
\* all carry its own material id is unmapped; a Stage B2 quote with a type
\* key is mapped whenever any row has that key, its own material included,
\* and is priced from such a row
C19_PoolAndOwnMaterial ==
  HistDone =>
    \A i \in 1..Len(response.results) :
      LET r == response.results[i]
      IN /\ response.stage = "A2" =>
              /\ r.tier # TierUnmapped =>
                   /\ SelectedRows(i) \cap SameKeyRows(i) # {}
                   /\ \A k \in SelectedRows(i) :
                        cachedData.performance[k].matNo # r.matNo
              /\ (\A k \in SameKeyRows(i) :
                    cachedData.performance[k].matNo = r.matNo)
                 => r.tier = TierUnmapped
         /\ (response.stage = "B2" /\ HistKey(i) # "") =>
              /\ SameKeyRows(i) # {} => r.tier # TierUnmapped
              /\ r.tier # TierUnmapped =>
                   SelectedRows(i) \cap SameKeyRows(i) # {}
              /\ (\A k \in SameKeyRows(i) :
                    cachedData.performance[k].matNo = r.matNo)
                 => \A k \in SelectedRows(i) :
                      cachedData.performance[k].matNo = r.matNo

\* a Stage A2 item priced from a row of another material while a later row
\* of its key carries its own material id
C19_Witness ==
  /\ HistDone
  /\ response.stage = "A2"
  /\ \E i \in 1..Len(response.results) :
       /\ response.results[i].tier # TierUnmapped
       /\ \E k \in SameKeyRows(i) :
            /\ cachedData.performance[k].matNo = response.results[i].matNo
            /\ cachedData.performance[k].date > response.results[i].date

\* the order rows of the loaded history for material id matNo that carry a
\* type code
TypedRows(matNo) ==
  {j \in 1..Len(cachedData.performance) :
     /\ cachedData.performance[j].matNo = matNo
     /\ cachedData.performance[j].vtype # ""}

\* C18: a loaded quote carries the type code, and the key derived from it, of
\* the order row of its material id whose order date is later than that of
\* every other such row, wherever that row stands in the table
C18_TypeFromLatestOrder ==
  cachedData.loaded =>
    \A i \in 1..Len(cachedData.vendorQuotes) :
      \A j \in TypedRows(cachedData.vendorQuotes[i].matNo) :
        (\A k \in TypedRows(cachedData.vendorQuotes[i].matNo) \ {j} :
           cachedData.performance[k].date < cachedData.performance[j].date)
        => /\ cachedData.vendorQuotes[i].vtype = cachedData.performance[j].vtype
           /\ cachedData.vendorQuotes[i].vkey
                = VtypeKeyOf(cachedData.performance[j].vtype)

-----------------------------------------------------------------------------
(* The market-trend stage over the orders of one vendor for the designated *)
(* valve in three months of 2025, against LME sheets that miss a month,    *)
(* repeat one, carry a blank price or a label outside '1월'..'12월'.        *)

MaxTrendRows == 3

TrendRow(vendor, date, desc, amount, qty) ==
  [matNo |-> "M1", desc |-> desc, vendor |-> vendor, date |-> date,
   amount |-> amount, qty |-> qty, vtype |-> TargetValveType]

TrendRowsT ==
  {TrendRow("HV", 20250110, "GL TR", a, 1) : a \in {0, 10, 15}}
  \cup {TrendRow("HV", 20250210, "GL TR", a, 1) : a \in {10, 15}}
  \cup {TrendRow("HV", 20250310, "GL TR", 25, 2),
        TrendRow("HV", 20250215, "GL TR LOCK", 99, 1)}

LmeRow(month, cu, sn) == [month |-> month, cu |-> cu, sn |-> sn]

LmeSheets ==
  {<<>>,
   <<LmeRow(1, 100, 100)>>,
   <<LmeRow(1, 100, 100), LmeRow(2, 90, 90)>>,
   <<LmeRow(1, 100, 100), LmeRow(2, 100, 100), LmeRow(3, 110, 100)>>,
   <<LmeRow(1, 0, 0), LmeRow(2, 100, 100)>>,
   <<LmeRow(2, 100, 100), LmeRow(0, 100, 100), LmeRow(1, 100, 100),
     LmeRow(2, 101, 101)>>,
   <<LmeRow(1, 90, 90), LmeRow(2, 100, 100), LmeRow(3, 90, 90)>>}

InitTrend ==
  /\ cachedData = NoData
  /\ response = NoResponse
  /\ call = NoCall
  /\ \E perf \in TokenSeqs(TrendRowsT, MaxTrendRows), lme \in LmeSheets :
       files = [price |-> <<>>, perf |-> perf, quotes |-> <<>>, lme |-> lme]

NextTrend == LoadAllData \/ StepC

SpecTrend == InitTrend /\ [][NextTrend]_vars

TrendDone == response.stage = "C"

\* the rows of the LME sheet for a year-month of 2025
IndexRows(ym) ==
  {i \in 1..Len(files.lme) : 202500 + files.lme[i].month = ym}

\* the blended index of a month is missing: the sheet has no row for the
\* month, or the row carries no price (blank cells are read as 0)
IndexMissing(ym) ==
  \/ IndexRows(ym) = {}
  \/ LmeBronze(response.lmeData, ym) = 0

GoodPairs == {<<TrendFlat, TrendUp>>, <<TrendDown, TrendFlat>>, <<TrendDown, TrendUp>>}
NormalPairs == {<<TrendFlat, TrendFlat>>, <<TrendUp, TrendUp>>}
CautionPairs ==
  {<<TrendFlat, TrendDown>>, <<TrendUp, TrendFlat>>, <<TrendUp, TrendDown>>,
   <<TrendDown, TrendDown>>}

\* the verdict of a comparison is the one the 3x3 table gives
ByTable(r) ==
  \/ r.judgment = JudgeGood /\ <<r.priceTrend, r.marketTrend>> \in GoodPairs
  \/ r.judgment = JudgeNormal /\ <<r.priceTrend, r.marketTrend>> \in NormalPairs
  \/ r.judgment = JudgeCaution /\ <<r.priceTrend, r.marketTrend>> \in CautionPairs

FlatPriceIndexFall(r) ==
  /\ r.prevPrice = r.currPrice
  /\ r.prevPrice > 0
  /\ IndexRows(r.prevYm) # {}
  /\ IndexRows(r.currYm) # {}
  /\ r.marketTrend = TrendDown

\* currentPrice x indexChange / 100 as the fraction num / den, den > 0
IndexMove(r) ==
  [num |-> r.currPrice * (LmeBronze(response.lmeData, r.currYm)
                          - LmeBronze(response.lmeData, r.prevYm)),
   den |-> LmeBronze(response.lmeData, r.prevYm)]

\* C13 as stated: an unchanged price under a falling index is reported as
\* caution with a loss of exactly currentPrice x |indexChange| / 100
C13_FlatPriceExactLoss ==
  TrendDone =>
    \A i \in 1..Len(response.trendResults) :
      LET r == response.trendResults[i]
      IN FlatPriceIndexFall(r) =>
           /\ r.judgment = JudgeCaution
           /\ r.estPL < 0
           /\ r.estPL * IndexMove(r).den = IndexMove(r).num

\* C13: an unchanged price under a falling index is reported as caution with
\* an estimated amount that is not positive and is the integer nearest to
\* -(currentPrice x |indexChange| / 100)
C13_FlatPriceRoundedLoss ==
  TrendDone =>
    \A i \in 1..Len(response.trendResults) :
      LET r == response.trendResults[i]
          off == 2 * (r.estPL * IndexMove(r).den - IndexMove(r).num)
      IN FlatPriceIndexFall(r) =>
           /\ r.judgment = JudgeCaution
           /\ r.estPL <= 0
           /\ off <= IndexMove(r).den
           /\ -off <= IndexMove(r).den

\* an unchanged price under a 10% fall whose exact loss is not an integer
C13_Witness ==
  /\ TrendDone
  /\ \E i \in 1..Len(response.trendResults) :
       LET r == response.trendResults[i]
       IN /\ FlatPriceIndexFall(r)
          /\ r.judgment = JudgeCaution
          /\ r.estPL < 0
          /\ r.estPL * IndexMove(r).den # IndexMove(r).num


\* the price and the index of a comparison changed, as the stage reads them:
\* the price change is 0 for a previous average price of 0, the index change
\* is 0 when the index is missing at either end or was 0 before
PriceChanged(r) == r.prevPrice > 0 /\ r.currPrice # r.prevPrice

IndexChanged(r) ==
  /\ IndexRows(r.prevYm) # {}
  /\ IndexRows(r.currYm) # {}
  /\ LmeBronze(response.lmeData, r.prevYm) > 0
  /\ LmeBronze(response.lmeData, r.currYm) # LmeBronze(response.lmeData, r.prevYm)

\* the estimated amount of the case a comparison falls in, as the fraction
\* num / den: currentPrice x (pc / (mc / 2)), currentPrice x mc / 100,
\* currentPrice x (-pc) / 100, or 0
CaseAmount(r) ==
  IF PriceChanged(r) /\ IndexChanged(r)
  THEN [num |-> 2 * r.currPrice * (r.currPrice - r.prevPrice)
                  * LmeBronze(response.lmeData, r.prevYm),
        den |-> r.prevPrice * (LmeBronze(response.lmeData, r.currYm)
                               - LmeBronze(response.lmeData, r.prevYm))]
  ELSE IF IndexChanged(r)
  THEN IndexMove(r)
  ELSE IF PriceChanged(r)
  THEN [num |-> -(r.currPrice * (r.currPrice - r.prevPrice)), den |-> r.prevPrice]
  ELSE [num |-> 0, den |-> 1]

\* v is an integer nearest to num / den
NearestTo(v, q) ==
  /\ 2 * (v * q.den - q.num) <= Abs(q.den)
  /\ 2 * (q.num - v * q.den) <= Abs(q.den)

\* C25 as stated: the estimated amount of every comparison is exactly the
\* amount of its case
C25_ExactCaseAmount ==
  TrendDone =>
    \A i \in 1..Len(response.trendResults) :
      response.trendResults[i].estPL * CaseAmount(response.trendResults[i]).den
        = CaseAmount(response.trendResults[i]).num

\* C25: the estimated amount of every comparison is the amount of its case,
\* one of the four by whether the price and the index changed, rounded to
\* the nearest integer; a comparison without index data counts as an index
\* change of 0
C25_RoundedCaseAmount ==
  TrendDone =>
    \A i \in 1..Len(response.trendResults) :
      NearestTo(response.trendResults[i].estPL,
                CaseAmount(response.trendResults[i]))

\* a comparison in which both the price and the index changed and whose
\* exact amount is not an integer
C25_Witness ==
  /\ TrendDone
  /\ \E i \in 1..Len(response.trendResults) :
       /\ PriceChanged(response.trendResults[i])
       /\ IndexChanged(response.trendResults[i])
       /\ CaseAmount(response.trendResults[i]).num
            % Abs(CaseAmount(response.trendResults[i]).den) # 0
-----------------------------------------------------------------------------
(* Any interleaving of loads and stage executions, while the data files    *)
(* under data/ lose rows on disk between the requests.                     *)

MaxCacheRows == 2

PerfRowsK ==
  {TrendRow("HV", 20250110, "GL TR", 10, 1),
   [TrendRow("HV", 20250210, "GL TR", 15, 1) EXCEPT !.matNo = "M2"],
   [TrendRow("KV", 20250215, "GL TR LOCK", 99, 1) EXCEPT !.matNo = "M2"]}

InitCache ==
  /\ cachedData = NoData
  /\ response = NoResponse
  /\ call = NoCall
  /\ \E perf \in TokenSeqs(PerfRowsK, MaxCacheRows) :
       files = [price |-> <<PriceRow("VGBARR240A", ProfA)>>,
                perf |-> perf,
                quotes |-> <<QuoteRow(1, "M1", "GL TR", 2, 1000)>>,
                lme |-> <<LmeRow(1, 100, 100), LmeRow(2, 90, 90)>>]

\* the environment: the first order row is removed from performance.json
RewriteFiles ==
  /\ files.perf # <<>>
  /\ files' = [files EXCEPT !.perf = Tail(@)]
  /\ UNCHANGED <<cachedData, response, call>>

NextCache ==
  \/ LoadAllData \/ Step1 \/ StepA1 \/ StepA2 \/ StepB1 \/ StepB2 \/ StepB3
  \/ StepC \/ RewriteFiles

SpecCache == InitCache /\ [][NextCache]_vars

-----------------------------------------------------------------------------
(* GET /api/step/b3 over up to four quotes that are excellent,            *)
(* unacceptable or without any match, with and without an API key, under   *)
(* every pattern of replies of the language model.                         *)

MaxBatchQuotes == 4

\* quotes of 900 and 2000 for the material ordered at 1000, and a quote for
\* a material that was never ordered
BatchQuoteKinds == {<<"M1", 900>>, <<"M1", 2000>>, <<"M9", 900>>}

InitBatch ==
  /\ cachedData = NoData
  /\ response = NoResponse
  /\ \E hasKey \in BOOLEAN : call = [fn |-> "none", apiKey |-> hasKey]
  /\ \E kinds \in TokenSeqs(BatchQuoteKinds, MaxBatchQuotes) :
       files = [price |-> <<>>,
                perf |-> <<PerfRow("M1", "VG1A", "GL TR", 1, 1000, 1)>>,
                quotes |-> [i \in 1..Len(kinds) |->
                              QuoteRow(i, kinds[i][1], "GL TR", 1, kinds[i][2])],
                lme |-> <<>>]

NextBatch == B3Begin \/ ItemCall \/ ItemComment \/ Delay \/ B3Respond

SpecBatch == InitBatch /\ [][NextBatch]_vars

BatchDone == response.stage = "B3AI"

\* the comment attached to the result of quote number no
AttachedComment(no) ==
  response.data[CHOOSE j \in 1..Len(response.data) :
                  response.data[j].row.No = no].comment

\* C15: the batch ends with a comment for every row it was given, and the
\* comment attached to a row whose call failed is the rule-based text for
\* the verdict of the row
C15_FailedCallFallsBack ==
  BatchDone =>
    \A k \in 1..Len(call.rows) :
      /\ call.rows[k].No \in DOMAIN call.comments
      /\ call.outcomes[k] = "throw" =>
           AttachedComment(call.rows[k].No) = generateFallbackComment(call.rows[k])

-----------------------------------------------------------------------------
(* The five stages over quote sheets and order histories in which some     *)
(* records have a price row or an earlier order and some have neither.     *)

MaxRecords == 2

QuoteKindsR == {<<"M1", "GL TR LOCK">>, <<"M3", "GL">>, <<"M9", "SPARE">>}

PerfFilesR ==
  {<<>>,
   <<PerfRow("M1", "VG1A", "GL TR LOCK", 1, 1000, 4)>>,
   <<PerfRow("M1", "VG1A", "GL TR LOCK", 1, 1000, 4),
     PerfRow("M2", "VG1A", "GL TR", 2, 900, 1),
     PerfRow("M3", "XK2B", "GL", 1, 500, 1)>>}

PriceFilesR == {<<>>, <<PriceRow("VG1", ProfA)>>}

InitRecords ==
  /\ cachedData = NoData
  /\ response = NoResponse
  /\ call = NoCall
  /\ \E kinds \in TokenSeqs(QuoteKindsR, MaxRecords),
        perf \in PerfFilesR, price \in PriceFilesR :
       files = [price |-> price, perf |-> perf,
                quotes |-> [i \in 1..Len(kinds) |->
                              QuoteRow(i, kinds[i][1], kinds[i][2], 2, 1000)],
                lme |-> <<>>]

NextRecords ==
  LoadAllData \/ StepA1 \/ StepA2 \/ StepB1 \/ StepB2 \/ StepB3

SpecRecords == InitRecords /\ [][NextRecords]_vars

\* results, one per record of the input and in its order, each carrying the
\* material id and description of its record
OnePerRecord(results, input) ==
  /\ Len(results) = Len(input)
  /\ \A i \in 1..Len(input) :
       results[i].matNo = input[i].matNo /\ results[i].desc = input[i].desc

\* C16: Stages B1, B2 and B3 return one result per vendor quote and Stages A1
\* and A2 one result per PR item, in the order of the input; the result of a record
\* that did not match is in the no-match state with every price 0
C16_OneResultPerRecord ==
  /\ response.stage \in {"B1", "B2", "B3"} =>
       /\ OnePerRecord(response.results, cachedData.vendorQuotes)
       /\ \A i \in 1..Len(response.results) :
            response.results[i].No = cachedData.vendorQuotes[i].No
  /\ response.stage \in {"A1", "A2"} =>
       OnePerRecord(response.results, generatePRItems(cachedData))
  /\ response.stage = "A1" =>
       \A i \in 1..Len(response.results) :
         LET r == response.results[i]
         IN r.status # Matched
            => r.status = Unmatched /\ r.body = 0 /\ r.opt = 0 /\ r.sum = 0
               /\ r.total = 0
  /\ response.stage = "B1" =>
       \A i \in 1..Len(response.results) :
         LET r == response.results[i]
         IN r.status # Matched
            => r.status = Unmatched /\ r.body = 0 /\ r.optNP = 0 /\ r.optOP = 0
               /\ r.contract = 0
  /\ response.stage \in {"A2", "B2"} =>
       \A i \in 1..Len(response.results) :
         LET r == response.results[i]
         IN r.tier \notin {TierExact, TierSimilar}
            => r.tier = TierUnmapped /\ r.recent = 0 /\ r.target = 0
               /\ r.date = NoDate

\* a Stage B2 response for two quotes of which the first has no historical
\* row and the second has one
C16_Witness ==
  /\ response.stage = "B2"
  /\ Len(cachedData.vendorQuotes) = 2
  /\ Len(response.results) = 2
  /\ response.results[1].tier = TierUnmapped
  /\ response.results[1].recent = 0
  /\ response.results[2].tier # TierUnmapped

-----------------------------------------------------------------------------
(* Stage B2 for a quote whose material has no order row with a type code:  *)
(* the description keywords of the quote against those of the history.     *)

MaxKwRows == 2

KwRow(vtype, desc, date) ==
  PerfRow("M1", vtype, desc, date, 1000 * date + Len(desc), 1)

PerfRowsW ==
  {KwRow("VG1A", "GL 5A 1K", 1),
   KwRow("VG1A", "GL  5A 1K TR", 2),
   KwRow("", "GL 5A 1K", 3),
   KwRow("VG1A", "GL 15A 1K", 2),
   KwRow("XK2B", "5A 1K GLB", 1)}

QuotesW ==
  {QuoteRow(1, mat, desc, 2, 1000) :
     mat \in {"M9"},
     desc \in {"GL 5A 1K", "GL 5A 1K LOCK", "GL 5A", "gl 5A 1K", "GL 15A 1K",
               "5A 1K GLB"}}
  \cup {QuoteRow(1, "M1", "GL 5A 1K", 2, 1000)}

InitKeyword ==
  /\ cachedData = NoData
  /\ response = NoResponse
  /\ call = NoCall
  /\ \E perf \in TokenSeqs(PerfRowsW, MaxKwRows), quote \in QuotesW :
       files = [price |-> <<>>, perf |-> perf, quotes |-> <<quote>>,
                lme |-> <<>>]

NextKeyword == LoadAllData \/ StepB2

SpecKeyword == InitKeyword /\ [][NextKeyword]_vars

KeywordDone == cachedData.loaded /\ response.stage = "B2"

\* the order rows with a type code whose description yields the same
\* category, size and pressure as that of quote i
KeywordRows(i) ==
  {k \in 1..Len(cachedData.performance) :
     /\ cachedData.performance[k].vtype # ""
     /\ extractDescKeywords(cachedData.performance[k].desc)
          = extractDescKeywords(cachedData.vendorQuotes[i].desc)}

\* the three keywords of quote i are all found
HasKeywords(i) ==
  /\ extractDescKeywords(cachedData.vendorQuotes[i].desc).type # ""
  /\ extractDescKeywords(cachedData.vendorQuotes[i].desc).size # ""
  /\ extractDescKeywords(cachedData.vendorQuotes[i].desc).pressure # ""

-----------------------------------------------------------------------------
(* The PR items and Stage A1 on order histories in which combinations of   *)
(* type code and description repeat with different dates and materials,    *)
(* with rows of every match category and, optionally, more rows without a  *)
(* price row than the failure group may hold.                              *)

MaxPRRows == 2

PerfRowsP ==
  {PerfRow("M1", "VG1A", "GL TR", 1, 1000, 2),
   PerfRow("M2", "VG1A", "GL TR", 2, 1200, 3),
   PerfRow("M3", "VG2B", "GL TR", 1, 800, 1),
   PerfRow("M4", "XK2A", "GL", 3, 500, 1),
   PerfRow("M5", "", "GL TR", 3, 700, 1),
   PerfRow("M6", "nan", "GL", 3, 600, 1),
   PerfRow("M7", "V", "GL", 2, 300, 1)}

BulkDescs == <<"S1", "S2", "S3", "S4", "S5", "S6", "S7", "S8", "S9", "S10",
               "S11", "S12">>

\* one more combination without a price row than failTarget
BulkRows ==
  [k \in 1..Len(BulkDescs) |->
     PerfRow("M9", "ZQ9Z", BulkDescs[k], 1 + (k % 3), 100 * k, 1)]

PriceFilesP ==
  {<<>>, <<PriceRow("VG1", ProfA)>>, <<PriceRow("", ProfA)>>,
   <<PriceRow("VG1", ProfA), PriceRow("XK2", ProfB)>>}

InitPR ==
  /\ cachedData = NoData
  /\ response = NoResponse
  /\ call = NoCall
  /\ \E head \in TokenSeqs(PerfRowsP, MaxPRRows), tail \in {<<>>, BulkRows},
        price \in PriceFilesP :
       files = [price |-> price, perf |-> head \o tail, quotes |-> <<>>,
                lme |-> <<>>]

NextPR == LoadAllData \/ Step1 \/ StepA1

SpecPR == InitPR /\ [][NextPR]_vars

PRDone == cachedData.loaded /\ response.stage = "1"

\* the loaded order rows of one combination of type code and description
ComboRows(vtype, desc) ==
  {k \in 1..Len(cachedData.performance) :
     /\ cachedData.performance[k].vtype = vtype
     /\ cachedData.performance[k].desc = desc}

\* the PR item carries the material, quantity, amount, date and vendor of row k
ItemOfRow(item, k) ==
  /\ item.matNo = cachedData.performance[k].matNo
  /\ item.qty = cachedData.performance[k].qty
  /\ item.amount = cachedData.performance[k].amount
  /\ item.date = cachedData.performance[k].date
  /\ item.vendor = cachedData.performance[k].vendor

PRA1Done == cachedData.loaded /\ response.stage = "A1"

\* the group generatePRItems puts an order row of this type code in, read
\* off the loaded price table
GroupOf(vtype) ==
  IF \E j \in 1..Len(cachedData.priceTable) :
       cachedData.priceTable[j].vtype = SubSeq(vtype, 1, Len(vtype) - 1)
  THEN TierTypeSize
  ELSE IF \E j \in 1..Len(cachedData.priceTable) :
            extractTypePrefix(cachedData.priceTable[j].vtype)
              = extractTypePrefix(vtype)
  THEN TierTypeOnly
  ELSE Unmatched

\* the outcome Stage A1 reports for a result: its tier, or unmatched
OutcomeOf(r) == IF r.status = Matched THEN r.tier ELSE Unmatched

GroupRank(g) ==
  IF g = TierTypeSize THEN 1 ELSE IF g = TierTypeOnly THEN 2 ELSE 3

\* C29: the outcome of every Stage A1 result is the group generatePRItems
\* put its item in, so the results come typeAndSize first, then typeOnly,
\* then unmatched, with at most 1093, 46 and 11 of them
C29_CategoryAgreesWithA1 ==
  PRA1Done =>
    /\ \A i \in 1..Len(response.results) :
         /\ OutcomeOf(response.results[i]) = GroupOf(response.results[i].vtype)
         /\ response.results[i].status = Unmatched => response.results[i].tier = "-"
    /\ \A i, j \in 1..Len(response.results) :
         i < j => GroupRank(OutcomeOf(response.results[i]))
                    <= GroupRank(OutcomeOf(response.results[j]))
    /\ response.summary.typeSize <= 1093
    /\ response.summary.typeOnly <= 46
    /\ response.summary.unmatched <= 11

\* a Stage A1 response with results of all three outcomes, computed from a
\* history with more combinations without a price row than the failure
\* group holds
C29_Witness ==
  /\ PRA1Done
  /\ response.summary.typeSize > 0
  /\ response.summary.typeOnly > 0
  /\ response.summary.unmatched = 11
  /\ Cardinality({<<cachedData.performance[k].vtype, cachedData.performance[k].desc>> :
                    k \in {m \in 1..Len(cachedData.performance) :
                             GroupOf(cachedData.performance[m].vtype) = Unmatched}})
       > 11

-----------------------------------------------------------------------------
(* Stages A2 and B2 on order rows whose amount is not a multiple of the    *)
(* ordered quantity, or whose quantity is missing or negative, against     *)
(* targets of several quantities; one row is a credit with a negative      *)
(* amount.  Every material has its own vendor, so the vendor of a result   *)
(* names the row it was priced from.                                       *)

MaxUnitRows == 2

PerfRowsU ==
  {PerfRow("M1", "VG1A", "GL TR", 1, 1000, 3),
   PerfRow("M2", "VG1A", "GL TR", 2, 1005, -2),
   PerfRow("M3", "VG1B", "GL", 3, 55, 0),
   PerfRow("M4", "VG1B", "GL TR", 2, 7, 2),
   PerfRow("M5", "VG1B", "GL", 1, 1, 2),
   PerfRow("M6", "VG1A", "GL TR", 3, 0, 1),
   PerfRow("M7", "VG1A", "GL TR", 3, -100, 1)}

QuoteQtysU == {1, 3, 0, -2}

InitUnit ==
  /\ cachedData = NoData
  /\ response = NoResponse
  /\ call = NoCall
  /\ \E perf \in TokenSeqs(PerfRowsU, MaxUnitRows), qMat \in {"M1", "M9"},
        qQty \in QuoteQtysU :
       files = [price |-> <<>>, perf |-> perf,
                quotes |-> <<QuoteRow(1, qMat, "GL TR", qQty, 1000)>>,
                lme |-> <<>>]

NextUnit == LoadAllData \/ StepA2 \/ StepB2 \/ StepB3

SpecUnit == InitUnit /\ [][NextUnit]_vars

UnitDone == cachedData.loaded /\ response.stage \in {"A2", "B2"}

\* the loaded order rows a result can have been priced from: those of its
\* vendor and date
SourceRows(r) ==
  {k \in 1..Len(cachedData.performance) :
     /\ cachedData.performance[k].vendor = r.vendor
     /\ cachedData.performance[k].date = r.date}

\* the quantity of the target as it came in: of the PR item, which is the
\* order row of the result's own material, or of the vendor quote
TargetQtys(i) ==
  IF response.stage = "A2"
  THEN {cachedData.performance[k].qty :
          k \in {m \in 1..Len(cachedData.performance) :
                   cachedData.performance[m].matNo = response.results[i].matNo}}
  ELSE {cachedData.vendorQuotes[i].qty}

\* a quantity that is not positive counts as 1
AsOrdered(n) == IF n > 0 THEN n ELSE 1

Mapped(r) == r.tier \in {TierExact, TierSimilar}

\* C22 as stated: recent-order price = amount / ordered quantity x target
\* quantity and negotiation target = 0.90 x that price, both exactly; 0 and
\* 0 when unmapped
C22_ExactUnitPrice ==
  UnitDone =>
    \A i \in 1..Len(response.results) :
      LET r == response.results[i]
      IN IF Mapped(r)
         THEN \E k \in SourceRows(r), q \in TargetQtys(i) :
                LET row == cachedData.performance[k]
                IN /\ r.recent * AsOrdered(row.qty) = row.amount * AsOrdered(q)
                   /\ r.target * 10 * AsOrdered(row.qty)
                        = 9 * row.amount * AsOrdered(q)
         ELSE r.recent = 0 /\ r.target = 0

\* C22: the recent-order price is amount / ordered quantity x target
\* quantity rounded to the nearest integer, and the negotiation target is
\* 0.90 x the unrounded price, rounded to the nearest integer; 0 and 0 when
\* unmapped
C22_RoundedUnitPrice ==
  UnitDone =>
    \A i \in 1..Len(response.results) :
      LET r == response.results[i]
      IN IF Mapped(r)
         THEN \E k \in SourceRows(r), q \in TargetQtys(i) :
                LET row == cachedData.performance[k]
                    num == row.amount * AsOrdered(q)
                    den == AsOrdered(row.qty)
                IN /\ r.qty = AsOrdered(q)
                   /\ 2 * den * r.recent <= 2 * num + den
                   /\ 2 * num + den < 2 * den * (r.recent + 1)
                   /\ 20 * den * r.target <= 18 * num + 10 * den
                   /\ 18 * num + 10 * den < 20 * den * (r.target + 1)
         ELSE r.recent = 0 /\ r.target = 0

\* a mapped result whose unit price is not a whole number, so that the
\* rounding of the two prices took effect
C22_Witness ==
  /\ UnitDone
  /\ \E i \in 1..Len(response.results) :
       /\ Mapped(response.results[i])
       /\ \A k \in SourceRows(response.results[i]), q \in TargetQtys(i) :
            (cachedData.performance[k].amount * AsOrdered(q))
              % AsOrdered(cachedData.performance[k].qty) # 0

HistoryDone == cachedData.loaded /\ response.stage \in {"A2", "B2", "B3"}

NonNegativeAmounts ==
  \A k \in 1..Len(cachedData.performance) : cachedData.performance[k].amount >= 0

\* C30: over an order history without negative amounts, the negotiation
\* target of a Stage A2, B2 or B3 result never exceeds its recent-order
\* price, and a positive target comes with a positive recent-order price
C30_TargetBelowRecent ==
  (HistoryDone /\ NonNegativeAmounts) =>
    \A i \in 1..Len(response.results) :
      /\ response.results[i].target <= response.results[i].recent
      /\ response.results[i].target > 0 => response.results[i].recent > 0

\* a Stage B3 result with a positive target below its recent-order price,
\* or with a target rounded down to 0 under a positive recent-order price
C30_Witness ==
  /\ response.stage = "B3"
  /\ cachedData.loaded
  /\ NonNegativeAmounts
  /\ \E i \in 1..Len(response.results) :
       \/ 0 < response.results[i].target
          /\ response.results[i].target < response.results[i].recent
       \/ response.results[i].target = 0 /\ response.results[i].recent > 0

-----------------------------------------------------------------------------
(* The two cause analyses of Stage B1 on one vendor quote that is broken   *)
(* down into components, each at, just below or just above the threshold   *)
(* away from the contract, against a priced row, a row without any price    *)
(* or an empty price table.                                                 *)

MaxCauseQty == 2

\* per piece: body 7 x weight 100, nameplate 500, outer coating 300, inner
\* coating 200, lock 5000
ProfD ==
  [vtype |-> "VG1", body2 |-> 100, qty |-> 1, vendor |-> "DV", bodyUnit |-> 7,
   NP |-> 500, OP |-> 300, IP |-> 200, LOCK |-> 5000, IND |-> 0, LSW |-> 0,
   EXT |-> 0, D13 |-> 0, D14 |-> 0, D16 |-> 0]

ProfZero ==
  [ProfD EXCEPT !.bodyUnit = 0, !.NP = 0, !.OP = 0, !.IP = 0, !.LOCK = 0]

PriceFilesD == {<<ProfD>>, <<ProfZero>>, <<>>}

\* the distance per piece of a quoted component from its contract price
Deltas == {0, 50, 100, 101}

PartsD(sign, d) ==
  [body |-> 700 + sign * d[1], NP |-> 500 + sign * d[2],
   ext |-> 300 + sign * d[3], int |-> 200 + sign * d[4],
   LOCK |-> 5000 + sign * d[5], rub |-> 0]

QuoteD(qty, parts) ==
  [QuoteRow(1, "M1", "GL TR LOCK", qty,
            qty * (parts.body + parts.NP + parts.ext + parts.int + parts.LOCK))
     EXCEPT !.parts = parts]

InitCause ==
  /\ cachedData = NoData
  /\ response = NoResponse
  /\ call = NoCall
  /\ \E price \in PriceFilesD, qty \in 1..MaxCauseQty, sign \in {1, -1},
        d \in [1..5 -> Deltas] :
       files = [price |-> price,
                perf |-> <<PerfRow("M1", "VG1A", "GL TR LOCK", 1, 1000, 1)>>,
                quotes |-> <<QuoteD(qty, PartsD(sign, d))>>,
                lme |-> <<>>]

NextCause == LoadAllData \/ StepB1 \/ B1Analysis

SpecCause == InitCause /\ [][NextCause]_vars

CauseDone == cachedData.loaded /\ response.stage \in {"B1", "B1X"}

\* the quoted and the contract amount of a component of the quote, for the
\* number of pieces of the quote
QuotedOf(c) ==
  cachedData.vendorQuotes[1].parts[c] * cachedData.vendorQuotes[1].qty

ContractOf(c) ==
  (IF c = "body"
   THEN cachedData.priceTable[1].bodyUnit * cachedData.vendorQuotes[1].weight
   ELSE IF c = "NP" THEN cachedData.priceTable[1].NP
   ELSE IF c = "ext" THEN cachedData.priceTable[1].OP
   ELSE IF c = "int" THEN cachedData.priceTable[1].IP
   ELSE cachedData.priceTable[1].LOCK) * cachedData.vendorQuotes[1].qty

Material(c) ==
  \/ QuotedOf(c) - ContractOf(c) > 100
  \/ ContractOf(c) - QuotedOf(c) > 100

\* C23: in executeStepB1 and in analyzePriceDifference a component of a
\* quote that has a price row is reported as a cause exactly when its
\* quoted amount is more than 100 away from its contract amount
C23_CauseIffAbove100 ==
  CauseDone =>
    \A i \in 1..Len(response.results) :
      response.results[i].status = Matched =>
        \A c \in {"body", "NP", "ext", "int", "LOCK"} :
          c \in response.results[i].causes <=> Material(c)

-----------------------------------------------------------------------------
(* getTrend on pairs of amounts around the 2% threshold: previous amounts  *)
(* of which 2% is a whole number, a zero and negative ones, and a current  *)
(* amount up to MaxMove away.                                              *)

MaxMove == 4

PrevAmounts == {-100, -50, 0, 50, 100, 150, 200}

InitGetTrend ==
  /\ files = NoFiles
  /\ cachedData = NoData
  /\ response = NoResponse
  /\ \E prev \in PrevAmounts, move \in -MaxMove..MaxMove :
       call = [fn |-> "getTrend", cur |-> prev + move, prev |-> prev,
               done |-> FALSE, out |-> ""]

ApplyGetTrend ==
  /\ call.fn = "getTrend"
  /\ ~call.done
  /\ call' = [call EXCEPT !.done = TRUE, !.out = getTrend(call.cur, call.prev)]
  /\ UNCHANGED <<files, cachedData, response>>

NextGetTrend == ApplyGetTrend

SpecGetTrend == InitGetTrend /\ [][NextGetTrend]_vars

GetTrendDone == call.fn = "getTrend" /\ call.done

\* (cur - prev) / prev > 2 / 100 and < -2 / 100 for a previous amount other
\* than 0, cleared of the division
Above2Percent(cur, prev) ==
  IF prev > 0 THEN 100 * (cur - prev) > 2 * prev
  ELSE 100 * (cur - prev) < 2 * prev

Below2Percent(cur, prev) ==
  IF prev > 0 THEN 100 * (cur - prev) < -2 * prev
  ELSE 100 * (cur - prev) > -2 * prev

\* C24: for a previous amount other than 0 getTrend returns rising exactly
\* when the relative change is above +2%, falling exactly when it is below
\* -2%, and flat otherwise, a change of exactly +2% or -2% included
C24_SymmetricThreshold ==
  (GetTrendDone /\ call.prev # 0) =>
    /\ call.out = TrendUp <=> Above2Percent(call.cur, call.prev)
    /\ call.out = TrendDown <=> Below2Percent(call.cur, call.prev)
    /\ call.out = TrendFlat <=>
         (~Above2Percent(call.cur, call.prev) /\ ~Below2Percent(call.cur, call.prev))

\* a change of exactly +2% or exactly -2%, classified flat
C24_Witness ==
  /\ GetTrendDone
  /\ call.prev # 0
  /\ \/ 50 * (call.cur - call.prev) = call.prev
     \/ 50 * (call.cur - call.prev) = -call.prev
  /\ call.out = TrendFlat

-----------------------------------------------------------------------------
(* The monthly vendor averages of Stage C on orders of two vendors with    *)
(* different quantities in one month, a quantity that is not positive, and *)
(* orders that are not grouped: with LOCK in any case, not ending in TR,   *)
(* of another type code, or without a readable date.                       *)

MaxMonthlyRows == 3

MonthlyRowsM ==
  {TrendRow("HV", 20250110, "GL TR", 25, 2),
   TrendRow("HV", 20250120, "GL TR", 10, 1),
   TrendRow("KV", 20250115, "GL TR", 30, 4),
   TrendRow("HV", 20250205, "GL TR", 9, -3),
   TrendRow("HV", 20250112, "GL lock TR", 99, 1),
   TrendRow("HV", 20250113, "GL TR X", 99, 1),
   [TrendRow("HV", 20250114, "GL TR", 99, 1) EXCEPT !.vtype = "VG1A"],
   TrendRow("HV", 0, "GL TR", 99, 1)}

InitMonthly ==
  /\ cachedData = NoData
  /\ response = NoResponse
  /\ call = NoCall
  /\ \E perf \in TokenSeqs(MonthlyRowsM, MaxMonthlyRows) :
       files = [price |-> <<>>, perf |-> perf, quotes |-> <<>>,
                lme |-> <<LmeRow(1, 100, 100), LmeRow(2, 90, 90)>>]

NextMonthly == LoadAllData \/ StepC

SpecMonthly == InitMonthly /\ [][NextMonthly]_vars

MonthlyDone == cachedData.loaded /\ response.stage = "C"

\* the loaded orders that are grouped under (year-month, vendor): of the
\* designated type code, without LOCK in the description, ending in TR
GroupedOrders(ym, vendor) ==
  {k \in 1..Len(cachedData.performance) :
     /\ cachedData.performance[k].vtype = "VGBARR240AT"
     /\ ~Includes(ToUpperCase(cachedData.performance[k].desc), "LOCK")
     /\ Len(cachedData.performance[k].desc) >= 2
     /\ SubSeq(cachedData.performance[k].desc,
               Len(cachedData.performance[k].desc) - 1,
               Len(cachedData.performance[k].desc)) = "TR"
     /\ cachedData.performance[k].date \div 100 = ym
     /\ cachedData.performance[k].vendor = vendor}

\* the sum of amount / quantity over a set of loaded orders, as a fraction
RECURSIVE UnitPriceSum(_)
UnitPriceSum(S) ==
  IF S = {} THEN [num |-> 0, den |-> 1]
  ELSE LET k == CHOOSE x \in S : TRUE
           rest == UnitPriceSum(S \ {k})
           q == AsOrdered(cachedData.performance[k].qty)
       IN [num |-> rest.num * q + cachedData.performance[k].amount * rest.den,
           den |-> rest.den * q]

\* the mean of the unit prices of a group, as a fraction
MeanUnitPrice(S) ==
  [num |-> UnitPriceSum(S).num, den |-> UnitPriceSum(S).den * Cardinality(S)]

\* every monthly row stands for a group of at least one order, with the
\* number of its orders, and every such group of a readable month has a row
GroupsAndCounts ==
  /\ \A i \in 1..Len(response.monthlyPrices) :
       /\ response.monthlyPrices[i].ym # 0
       /\ response.monthlyPrices[i].count > 0
       /\ response.monthlyPrices[i].count
            = Cardinality(GroupedOrders(response.monthlyPrices[i].ym,
                                        response.monthlyPrices[i].vendor))
       /\ \A j \in 1..Len(response.monthlyPrices) :
            (/\ response.monthlyPrices[j].ym = response.monthlyPrices[i].ym
             /\ response.monthlyPrices[j].vendor = response.monthlyPrices[i].vendor)
              => i = j
  /\ \A k \in 1..Len(cachedData.performance) :
       (/\ cachedData.performance[k].date \div 100 # 0
        /\ k \in GroupedOrders(cachedData.performance[k].date \div 100,
                               cachedData.performance[k].vendor))
         => \E i \in 1..Len(response.monthlyPrices) :
              /\ response.monthlyPrices[i].ym = cachedData.performance[k].date \div 100
              /\ response.monthlyPrices[i].vendor = cachedData.performance[k].vendor

\* C26 as stated: the average price of a group is exactly the mean of the
\* unit prices of its orders
C26_ExactMeanOfUnitPrices ==
  MonthlyDone =>
    /\ GroupsAndCounts
    /\ \A i \in 1..Len(response.monthlyPrices) :
         response.monthlyPrices[i].avg
           * MeanUnitPrice(GroupedOrders(response.monthlyPrices[i].ym,
                                         response.monthlyPrices[i].vendor)).den
           = MeanUnitPrice(GroupedOrders(response.monthlyPrices[i].ym,
                                         response.monthlyPrices[i].vendor)).num

\* C26: the average price of a (year-month, vendor) group is the unweighted
\* mean of the unit prices of its orders (amount over own quantity), rounded
\* to the nearest integer; its count is the number of those orders; only
\* orders of the designated type code without LOCK and ending in TR are
\* grouped
C26_RoundedMeanOfUnitPrices ==
  MonthlyDone =>
    /\ GroupsAndCounts
    /\ \A i \in 1..Len(response.monthlyPrices) :
         NearestTo(response.monthlyPrices[i].avg,
                   MeanUnitPrice(GroupedOrders(response.monthlyPrices[i].ym,
                                               response.monthlyPrices[i].vendor)))

\* a group of two orders with different quantities whose average is not the
\* total amount over the total quantity, next to an order that is left out
C26_Witness ==
  /\ MonthlyDone
  /\ \E i \in 1..Len(response.monthlyPrices) :
       /\ response.monthlyPrices[i].count = 2
       /\ response.monthlyPrices[i].totalQty > 0
       /\ ~NearestTo(response.monthlyPrices[i].avg,
                     [num |-> response.monthlyPrices[i].totalAmount,
                      den |-> response.monthlyPrices[i].totalQty])
  /\ response.summary.targetCount < Len(cachedData.performance)

-----------------------------------------------------------------------------
(* generateBatchComments over the samples of up to three quotes, with and  *)
(* without an API key and a progress callback, under every pattern of      *)
(* replies. The event loop resumes a continuation that is ready, the timer *)
(* of the delay fires, and the promise of callLLM settles: fetch resolves  *)
(* or rejects, and a rejection is caught (aiService.ts 33-36).             *)

MaxLoopRows == 3

InitLoop ==
  /\ cachedData = NoData
  /\ response = NoResponse
  /\ \E hasKey \in BOOLEAN : call = [fn |-> "none", apiKey |-> hasKey]
  /\ \E kinds \in TokenSeqs(BatchQuoteKinds, MaxLoopRows) :
       files = [price |-> <<>>,
                perf |-> <<PerfRow("M1", "VG1A", "GL TR", 1, 1000, 1)>>,
                quotes |-> [i \in 1..Len(kinds) |->
                              QuoteRow(i, kinds[i][1], "GL TR", 1, kinds[i][2])],
                lme |-> <<>>]

NextLoop == CallBatch \/ ItemCall \/ ItemComment \/ Delay \/ BatchReturn

SpecLoop == InitLoop /\ [][NextLoop]_vars

FairLoop ==
  /\ SpecLoop
  /\ WF_vars(ItemCall)
  /\ WF_vars(ItemComment)
  /\ WF_vars(Delay)
  /\ WF_vars(BatchReturn)

LoopStarted == call.fn \in {"generateBatchComments", "returned"}

LoopReturned == call.fn = "returned"

\* the events of a whole batch from row k on: for each row in turn its call,
\* the return of the call, the progress report k of n where a callback was
\* given, and, except after the last row, the delay
RECURSIVE EventsFrom(_, _, _)
EventsFrom(rows, onProgress, k) ==
  IF k > Len(rows) THEN <<>>
  ELSE <<Event("call", rows[k].No, 0, 0), Event("return", rows[k].No, 0, 0)>>
       \o (IF onProgress THEN <<Event("progress", 0, k, Len(rows))>> ELSE <<>>)
       \o (IF k < Len(rows) THEN <<Event("delay", 0, 0, 0)>> ELSE <<>>)
       \o EventsFrom(rows, onProgress, k + 1)

IsPrefix(s, t) == Len(s) <= Len(t) /\ SubSeq(t, 1, Len(s)) = s

\* what has happened so far is the beginning of the one sequential batch,
\* no call is in flight while the delay is awaited, and a batch that has
\* returned has run all of it
InSequence ==
  LoopStarted =>
    /\ IsPrefix(call.events, EventsFrom(call.rows, call.onProgress, 1))
    /\ ~(call.pending /\ call.waiting)
    /\ LoopReturned =>
         /\ call.events = EventsFrom(call.rows, call.onProgress, 1)
         /\ Len(call.outcomes) = Len(call.rows)

\* C27: generateBatchComments calls generateItemComment for the rows one
\* after another in row order, each call after the previous one has
\* returned; it waits the delay between every two consecutive calls and not
\* after the last; it reports progress i of n to the callback after the
\* i-th call; and it returns, after exactly one call per row
C27_SequentialBatchTerminates ==
  /\ []InSequence
  /\ (LoopStarted ~> LoopReturned)

\* a batch of three rows with a progress callback has returned
C27_Witness ==
  /\ LoopReturned
  /\ call.onProgress
  /\ Len(call.rows) = 3
  /\ call.rows[1].No > call.rows[2].No

-----------------------------------------------------------------------------
(* The five stages over up to three quotes that fall into every match     *)
(* tier, history tier and verdict, with and without a price table and an   *)
(* order history whose PR items fall into every tier as well.              *)

MaxSummaryQuotes == 3

\* quotes at, between and above the target and the recent price of the
\* ordered material, a quote whose description was never ordered, and a
\* quote for a material that was never ordered
QuoteKindsS ==
  {<<"M1", "GL TR", 900>>, <<"M1", "GL TR", 950>>, <<"M1", "GL TR", 2000>>,
   <<"M2", "GL X", 700>>, <<"M9", "SP", 100>>}

PerfFilesS ==
  {<<>>,
   <<PerfRow("M1", "VG1A", "GL TR", 3, 1000, 1),
     PerfRow("M4", "VG1A", "GL TR", 1, 1000, 1),
     PerfRow("M2", "VG2B", "GL TR", 2, 800, 1),
     PerfRow("M5", "VG2C", "GL", 1, 600, 1),
     PerfRow("M3", "XK2A", "GL", 3, 500, 1)>>}

PriceFilesS == {<<>>, <<PriceRow("VG1", ProfA), PriceRow("VG2B", ProfB)>>}

InitSummary ==
  /\ cachedData = NoData
  /\ response = NoResponse
  /\ call = NoCall
  /\ \E kinds \in TokenSeqs(QuoteKindsS, MaxSummaryQuotes),
        perf \in PerfFilesS, price \in PriceFilesS :
       files = [price |-> price, perf |-> perf,
                quotes |-> [i \in 1..Len(kinds) |->
                              QuoteRow(i, kinds[i][1], kinds[i][2], 1,
                                       kinds[i][3])],
                lme |-> <<>>]

NextSummary ==
  LoadAllData \/ StepA1 \/ StepA2 \/ StepB1 \/ StepB2 \/ StepB3

SpecSummary == InitSummary /\ [][NextSummary]_vars

\* the number of results of the response whose field has the value
NumberWith(field, value) ==
  Cardinality({i \in 1..Len(response.results) :
                 response.results[i][field] = value})

\* C28: the counters of a stage's summary count its results: in A1 and B1
\* matched + unmatched = total and typeAndSize + typeOnly = matched; in A2
\* and B2 exactDescription + similarType + unmapped = total; in B3
\* excellent + acceptable + unacceptable + indeterminate = total
C28_SummaryCountsResults ==
  /\ response.stage \in {"A1", "A2", "B1", "B2", "B3"} =>
       response.summary.total = Len(response.results)
  /\ response.stage \in {"A1", "B1"} =>
       /\ response.summary.matched = NumberWith("status", "matched")
       /\ response.summary.unmatched = NumberWith("status", "unmatched")
       /\ response.summary.typeSize = NumberWith("tier", "typeAndSize")
       /\ response.summary.typeOnly = NumberWith("tier", "typeOnly")
       /\ response.summary.matched + response.summary.unmatched
            = response.summary.total
       /\ response.summary.typeSize + response.summary.typeOnly
            = response.summary.matched
  /\ response.stage \in {"A2", "B2"} =>
       /\ response.summary.exact = NumberWith("tier", "exactDescription")
       /\ response.summary.similar = NumberWith("tier", "similarType")
       /\ response.summary.unmapped = NumberWith("tier", "unmapped")
       /\ response.summary.exact + response.summary.similar
            + response.summary.unmapped = response.summary.total
  /\ response.stage = "B3" =>
       /\ response.summary.excellent = NumberWith("verdict", Excellent)
       /\ response.summary.acceptable = NumberWith("verdict", Acceptable)
       /\ response.summary.unacceptable = NumberWith("verdict", Unacceptable)
       /\ response.summary.indeterminate = NumberWith("verdict", Indeterminate)
       /\ response.summary.excellent + response.summary.acceptable
            + response.summary.unacceptable + response.summary.indeterminate
            = response.summary.total

\* a B1 response of three quotes with one of each of typeAndSize, typeOnly
\* and unmatched
C28_Witness ==
  /\ response.stage = "B1"
  /\ response.summary.total = 3
  /\ response.summary.typeSize = 1
  /\ response.summary.typeOnly = 1
  /\ response.summary.unmatched = 1
====
